---- MODULE Spec2Model ----
(***************************************************************************)
(* Verification model of the flax ECS core: slice algebra, change lists,   *)
(* change filters and filter combinators driven by FilterIter, the tick    *)
(* discipline of Query, run-time borrow checking of component columns and  *)
(* the sequential schedule.                                                *)
(***************************************************************************)
EXTENDS Integers, Sequences, FiniteSets, TLC

(* ------------------------------ bounds --------------------------------- *)
\* slots of the archetype the filters run over: [0, MaxSlot)
MaxSlot == 4
\* largest change tick used when change lists are built directly
MaxTick == 2
\* records set into one change list
MaxChanges == 2
\* longest slice one Changes::set call records in the filter specifications
MaxWrite == 1

\* entities spawned into the world of the query specification
MaxEntities == 3
\* largest value the world's change tick takes in the query specification
MaxWorldTick == 5
\* runs of the query in the query specification
MaxRuns == 3

\* query handles preparing against one archetype in the borrow specification
MaxHandles == 3
\* systems added to the schedule
MaxSystems == 3
\* executions of the schedule
MaxExecs == 2

\* entities of the world a schedule executes on
MaxWorld == 1
\* entity indices of the world specification
MaxIndex == 2
\* spawns into the world of the world specification
MaxSpawns == 2
\* function systems made in the run specifications
MaxFns == 2
\* commands a function records in one execution
MaxCmds == 2
\* values of a Local
MaxLocal == 2
\* values of a component set on an entity builder
MaxValue == 2
\* calls of FilterIter::next made after it returned None
MaxLate == 2
\* inputs given to one system with with_input
MaxInputs == 2

(* ------------------------------ helpers -------------------------------- *)
Max2(a, b) == IF a >= b THEN a ELSE b
Min2(a, b) == IF a <= b THEN a ELSE b

(* ------------------------- archetype::Slice ---------------------------- *)
\* Slice::new(start, end): the half-open range [start, end)
SliceNew(a, b) == [start |-> a, end |-> b]
\* Slice::empty()
empty == SliceNew(0, 0)
\* Option::None for an Option<Slice>
None == SliceNew(-1, -1)

is_empty(s) == s.start >= s.end

\* the slots a slice denotes
SlotsOf(s) == {x \in 0..(MaxSlot + 2) : s.start <= x /\ x < s.end}

\* the sub-slices of [0, n) with 1..w slots
SlicesIn(n, w) ==
    {SliceNew(a, b) : a \in 0..n, b \in 0..n} \cap
    {s \in [start : 0..n, end : 0..n] : s.start < s.end /\ s.end - s.start <= w}

intersect(a, b) ==
    LET s == Max2(a.start, b.start)
        e == Min2(a.end, b.end)
    IN SliceNew(s, Max2(s, e))

overlaps(a, b) == a.start < b.end /\ b.start < a.end

\* Some(hull) iff the slices touch; an empty slice is the identity
union(a, b) ==
    IF is_empty(a) THEN b
    ELSE IF is_empty(b) THEN a
    ELSE IF a.end >= b.start /\ b.end >= a.start
         THEN SliceNew(Min2(a.start, b.start), Max2(a.end, b.end))
         ELSE None

\* a - b, defined when b is a subset of a flush with one boundary of a
difference(a, b) ==
    IF is_empty(b) THEN a
    ELSE IF b.start < a.start \/ b.end > a.end THEN None
    ELSE IF b.start = a.start THEN SliceNew(b.end, a.end)
    ELSE IF b.end = a.end THEN SliceNew(a.start, b.start)
    ELSE None

\* (left, mid, right) when sub is a subset of a, None otherwise
split_with(a, sub) ==
    IF sub.start < a.start \/ sub.end > a.end
    THEN None
    ELSE [l |-> SliceNew(a.start, sub.start), m |-> sub, r |-> SliceNew(sub.end, a.end)]

(* ------------------------ archetype::Changes --------------------------- *)
Kinds == {"modified", "inserted"}

\* Change::modified / Change::inserted
Change(slice, tick, kind) == [slice |-> slice, tick |-> tick, kind |-> kind]

\* an order by ascending tick, then ascending start
ChangeLeqByTick(x, y) ==
    \/ x.tick < y.tick
    \/ x.tick = y.tick /\ x.slice.start <= y.slice.start

\* the order change records are kept in: ascending start, then ascending tick
ChangeLeq(x, y) ==
    \/ x.slice.start < y.slice.start
    \/ x.slice.start = y.slice.start /\ x.tick <= y.tick

\* stable insertion of record c into the sorted list
RECURSIVE InsertSorted(_, _)
InsertSorted(list, c) ==
    IF list = <<>> THEN <<c>>
    ELSE IF ChangeLeq(Head(list), c)
         THEN <<Head(list)>> \o InsertSorted(Tail(list), c)
         ELSE <<c>> \o list

RECURSIVE SortChanges(_)
SortChanges(list) ==
    IF list = <<>> THEN <<>>
    ELSE InsertSorted(SortChanges(SubSeq(list, 1, Len(list) - 1)), list[Len(list)])

\* Changes::set: coalesce with the last record of equal tick and kind whose
\* slice touches, otherwise append; the records are kept sorted
ChangesSet(list, c) ==
    LET n == Len(list) IN
    IF /\ n > 0
       /\ list[n].tick = c.tick
       /\ list[n].kind = c.kind
       /\ union(list[n].slice, c.slice) # None
    THEN SortChanges([list EXCEPT ![n].slice = union(list[n].slice, c.slice)])
    ELSE SortChanges(Append(list, c))

\* Changes::get(kind): the records of one kind, in list order
ChangesGet(list, kind) == SelectSeq(list, LAMBDA c : c.kind = kind)

\* Changes::as_changed_set restricted to one kind: slots with a record of
\* that kind newer than tick
ChangedSet(list, tick, kind) ==
    {x \in 0..MaxSlot :
        \E i \in 1..Len(list) :
            /\ list[i].tick > tick
            /\ list[i].kind = kind
            /\ x \in SlotsOf(list[i].slice)}

(* ------------- filter/mod.rs: PreparedKindFilter (index walk) ----------- *)
\* state of a prepared change filter: cached slice, position, old tick, kind
KindState(tick, kind) == [cur |-> None, index |-> 0, tick |-> tick, kind |-> kind]

\* current_slice that takes the next record newer than the old tick, of any kind
RECURSIVE current_slice_any_kind(_, _)
current_slice_any_kind(changes, st) ==
    IF st.cur # None THEN [st |-> st, res |-> st.cur]
    ELSE IF st.index < Len(changes)
         THEN LET change == changes[st.index + 1]
                  st1 == [st EXCEPT !.index = @ + 1]
              IN IF change.tick > st.tick
                 THEN [st |-> [st1 EXCEPT !.cur = change.slice], res |-> change.slice]
                 ELSE current_slice_any_kind(changes, st1)
         ELSE [st |-> st, res |-> None]

RECURSIVE current_slice(_, _)
current_slice(changes, st) ==
    IF st.cur # None THEN [st |-> st, res |-> st.cur]
    ELSE IF st.index < Len(changes)
         THEN LET change == changes[st.index + 1]
                  st1 == [st EXCEPT !.index = @ + 1]
              IN IF change.tick > st.tick /\ st.kind = change.kind
                 THEN [st |-> [st1 EXCEPT !.cur = change.slice], res |-> change.slice]
                 ELSE current_slice(changes, st1)
         ELSE [st |-> st, res |-> None]

RECURSIVE PreparedKindFilter_filter(_, _, _)
PreparedKindFilter_filter(changes, st, slots) ==
    LET c == current_slice(changes, st) IN
    IF c.res = None THEN [st |-> c.st, out |-> empty, ok |-> TRUE]
    ELSE LET i == intersect(c.res, slots) IN
         IF is_empty(i)
         THEN PreparedKindFilter_filter(changes, [c.st EXCEPT !.cur = None], slots)
         ELSE [st |-> c.st, out |-> i, ok |-> TRUE]

(* ------------- filter/change.rs: PreparedKindFilter (cursor) ------------ *)
\* the records of a list newer than old_tick (iter().filter(tick > old_tick))
\* the records not older than the old tick: the tick test taken as >=
NewerOrEqual(list, old_tick) == SelectSeq(list, LAMBDA c : c.tick >= old_tick)

Newer(list, old_tick) == SelectSeq(list, LAMBDA c : c.tick > old_tick)

\* the position of the last record overlapping slots, 0 if none
FindPositionLast(list, slots) ==
    LET hits == {i \in 1..Len(list) : overlaps(list[i].slice, slots)}
    IN IF hits = {} THEN 0 ELSE CHOOSE i \in hits : \A j \in hits : i >= j

\* find_position: 1-based position of the first record overlapping slots, 0 if none
FindPosition(list, slots) ==
    LET hits == {i \in 1..Len(list) : overlaps(list[i].slice, slots)}
    IN IF hits = {} THEN 0 ELSE CHOOSE i \in hits : \A j \in hits : i <= j

\* find_slice without the short circuit on the cached record
find_slice_fresh(changes, st, slots) ==
    LET fwd == Newer(SubSeq(changes, st.index + 1, Len(changes)), st.tick)
        p == FindPosition(fwd, slots)
        bwd == Newer(SubSeq(changes, 1, st.index), st.tick)
        q == FindPosition(bwd, slots)
    IN IF p > 0
       THEN [st |-> [st EXCEPT !.cur = fwd[p].slice, !.index = p - 1],
             res |-> fwd[p].slice, from |-> "forward"]
       ELSE IF q > 0
            THEN [st |-> st, res |-> bwd[q].slice, from |-> "backward"]
            ELSE [st |-> st, res |-> None, from |-> "none"]

\* changes is the list of the filter's kind; st.index is the cursor; from names
\* the branch that returned
find_slice(changes, st, slots) ==
    IF st.cur # None /\ overlaps(st.cur, slots)
    THEN [st |-> st, res |-> st.cur, from |-> "cached"]
    ELSE LET fwd == Newer(SubSeq(changes, st.index + 1, Len(changes)), st.tick)
             p == FindPosition(fwd, slots)
             bwd == Newer(SubSeq(changes, 1, st.index), st.tick)
             q == FindPosition(bwd, slots)
         IN IF p > 0
            THEN [st |-> [st EXCEPT !.cur = fwd[p].slice, !.index = p - 1],
                  res |-> fwd[p].slice, from |-> "forward"]
            ELSE IF q > 0
                 THEN [st |-> st, res |-> bwd[q].slice, from |-> "backward"]
                 ELSE [st |-> st, res |-> None, from |-> "none"]

\* filter_slots that returns the slice of the record found as it is
filter_slots_whole(changes, st, slots) ==
    LET f == find_slice(ChangesGet(changes, st.kind), st, slots) IN
    IF f.res = None THEN [st |-> f.st, out |-> empty, ok |-> TRUE]
    ELSE [st |-> f.st, out |-> f.res, ok |-> TRUE]

filter_slots(changes, st, slots) ==
    LET f == find_slice(ChangesGet(changes, st.kind), st, slots) IN
    IF f.res = None THEN [st |-> f.st, out |-> empty, ok |-> TRUE]
    ELSE [st |-> f.st, out |-> intersect(f.res, slots), ok |-> TRUE]

(* --------------------- filter/mod.rs: combinators ----------------------- *)
\* filters: a change filter of filter/mod.rs or of filter/change.rs on the
\* change list of component i, All, and the combinators And, Or and Not
KindF(i) == [op |-> "kind", list |-> i]
ChangeF(i) == [op |-> "change", list |-> i]
All == [op |-> "all"]
And(l, r) == [op |-> "and", left |-> l, right |-> r]
Or(l, r) == [op |-> "or", left |-> l, right |-> r]
Not(l) == [op |-> "not", left |-> l]

\* prepared state of And and Or: the prepared states of the two sides
PairState(l, r) == [left |-> l, right |-> r]

\* BooleanFilter::filter
BooleanFilter_filter(b, slots) == IF b THEN slots ELSE empty

\* PreparedFilter::filter of the prepared filter f with state st; the result is
\* the state after the call, the slice returned and whether the call returned
\* at all (ok = FALSE is a panic)
RECURSIVE ApplyFilter(_, _, _, _)

\* PreparedOr::filter
PreparedOr_filter(f, chg, st, slots) ==
    LET l == ApplyFilter(f.left, chg, st.left, slots)
        r == ApplyFilter(f.right, chg, st.right, slots)
        u == union(l.out, r.out)
    IN [st |-> PairState(l.st, r.st),
        out |-> IF u # None THEN u ELSE l.out,
        ok |-> l.ok /\ r.ok]

\* PreparedNot::filter; unwrap() of a None difference panics
PreparedNot_filter(f, chg, st, slots) ==
    LET a == ApplyFilter(f.left, chg, st, slots)
        d == difference(slots, a.out)
    IN [st |-> a.st,
        out |-> IF d # None THEN d ELSE empty,
        ok |-> a.ok /\ d # None]

\* PreparedAnd::filter
PreparedAnd_filter(f, chg, st, slots) ==
    LET l == ApplyFilter(f.left, chg, st.left, slots)
        r == ApplyFilter(f.right, chg, st.right, slots)
        i == intersect(l.out, r.out)
    IN IF is_empty(i)
       THEN LET max == Min2(Max2(l.out.start, r.out.start), slots.end)
                slots2 == SliceNew(max, slots.end)
                l2 == ApplyFilter(f.left, chg, l.st, slots2)
                r2 == ApplyFilter(f.right, chg, r.st, slots2)
            IN [st |-> PairState(l2.st, r2.st), out |-> intersect(l2.out, r2.out),
                ok |-> l.ok /\ r.ok /\ l2.ok /\ r2.ok]
       ELSE [st |-> PairState(l.st, r.st), out |-> i, ok |-> l.ok /\ r.ok]

ApplyFilter(f, chg, st, slots) ==
    CASE f.op = "kind" -> PreparedKindFilter_filter(chg[f.list], st, slots)
      [] f.op = "change" -> filter_slots(chg[f.list], st, slots)
      [] f.op = "all" -> [st |-> st, out |-> BooleanFilter_filter(st, slots), ok |-> TRUE]
      [] f.op = "and" -> PreparedAnd_filter(f, chg, st, slots)
      [] f.op = "or" -> PreparedOr_filter(f, chg, st, slots)
      [] f.op = "not" -> PreparedNot_filter(f, chg, st, slots)

\* Filter::prepare: the change filters take the old tick and their kind, the
\* ModifiedFilter is the Or of the modified and the inserted change filter
ModifiedFilter(i) == Or(KindF(i), KindF(i))
ModifiedFilter_prepare(old_tick) ==
    PairState(KindState(old_tick, "modified"), KindState(old_tick, "inserted"))

\* Filter::matches of the filter f for an archetype that has the components comps
RECURSIVE Filter_matches(_, _)
Filter_matches(f, comps) ==
    CASE f.op \in {"kind", "change"} -> f.list \in comps
      [] f.op = "all" -> TRUE
      [] f.op = "and" -> Filter_matches(f.left, comps) /\ Filter_matches(f.right, comps)
      [] f.op = "or" -> Filter_matches(f.left, comps) \/ Filter_matches(f.right, comps)
      [] f.op = "not" -> ~Filter_matches(f.left, comps)

(* ----------------------- filter/mod.rs: FilterIter ---------------------- *)
\* FilterIter::next that yields the left part of the split
FilterIter_next_left(f, chg, st, slots) ==
    LET cur == ApplyFilter(f, chg, st, slots)
        sp == split_with(slots, cur.out)
    IN IF ~cur.ok THEN [res |-> "panic", st |-> cur.st, slots |-> slots, item |-> empty]
       ELSE IF is_empty(cur.out)
            THEN [res |-> "none", st |-> cur.st, slots |-> slots, item |-> empty]
            ELSE IF sp = None
                 THEN [res |-> "panic", st |-> cur.st, slots |-> slots, item |-> empty]
                 ELSE [res |-> "some", st |-> cur.st, slots |-> sp.r, item |-> sp.l]

\* FilterIter::next: one call of the filter on the remaining slots.
\* res = "none" ends the iteration, "some" yields item and keeps rest,
\* "panic" is the failed expect() or a panic inside the filter
FilterIter_next(f, chg, st, slots) ==
    LET cur == ApplyFilter(f, chg, st, slots)
        sp == split_with(slots, cur.out)
    IN IF ~cur.ok THEN [res |-> "panic", st |-> cur.st, slots |-> slots, item |-> empty]
       ELSE IF is_empty(cur.out)
            THEN [res |-> "none", st |-> cur.st, slots |-> slots, item |-> empty]
            ELSE IF sp = None
                 THEN [res |-> "panic", st |-> cur.st, slots |-> slots, item |-> empty]
                 ELSE [res |-> "some", st |-> cur.st, slots |-> sp.r, item |-> sp.m]

\* the slices FilterIter yields when driven until it stops (collect_vec)
RECURSIVE Collect(_, _, _, _)
Collect(f, chg, st, slots) ==
    LET n == FilterIter_next(f, chg, st, slots) IN
    IF n.res = "some"
    THEN <<n.item>> \o Collect(f, chg, n.st, n.slots)
    ELSE <<>>

\* the slots of a sequence of slices
SlotsOfSeq(seq) == UNION {SlotsOf(seq[i]) : i \in 1..Len(seq)}

(* ------------------------------- World --------------------------------- *)
\* World::change_tick: the current tick
change_tick(w) == w

\* World::advance_change_tick: the tick after the atomic increment; the u32
\* counter does not wrap below MaxWorldTick, where the actions stop advancing it
advance_change_tick(w) == w + 1

\* Archetype::push of one entity with component c: the record of the new slot
PushChange(len, tick) == Change(SliceNew(len, len + 1), tick, "inserted")

(* ------------------------------- Query ---------------------------------- *)
\* Query::prepare_tick: old is the tick of the last run, new the tick of this
\* one; self is the change_tick the query stores, world the world's tick after
\* prepare_tick that leaves the query's stored tick as it was
prepare_tick_keep(self_change_tick, world, MUTABLE) ==
    LET new_tick == IF MUTABLE THEN world + 1 ELSE world
    IN [old |-> self_change_tick, new |-> new_tick, self |-> self_change_tick,
        world |-> IF MUTABLE THEN new_tick ELSE world]

\* prepare_tick that acquires a new tick whether or not the fetch is mutable
prepare_tick_advance(self_change_tick, world, MUTABLE) ==
    [old |-> self_change_tick, new |-> world + 1, self |-> world + 1, world |-> world + 1]

prepare_tick(self_change_tick, world, MUTABLE) ==
    LET old_tick == self_change_tick
        new_tick == IF MUTABLE THEN advance_change_tick(world) ELSE change_tick(world)
    IN [old |-> old_tick, new |-> new_tick, self |-> new_tick,
        world |-> IF MUTABLE THEN new_tick ELSE world]

\* Query::new(fetch).filter(g): the filter is All and:ed with g, where g is
\* the ModifiedFilter or the modified ChangeFilter of component c
QueryFilter(g) ==
    And(All, IF g = "modified" THEN ModifiedFilter(1) ELSE ChangeF(1))

\* Filter::prepare of the query's filter
QueryFilter_prepare(g, old_tick) ==
    PairState(TRUE, IF g = "modified" THEN ModifiedFilter_prepare(old_tick)
                    ELSE KindState(old_tick, "modified"))

\* Changes::set that keeps a modified record only while tracking is on
Changes_set_when_tracked(list, c, track) ==
    IF c.kind = "modified" /\ ~track THEN list ELSE ChangesSet(list, c)

\* Changes::set of the record of a write: the modified record is emitted
\* whether or not modification tracking was switched on
Changes_set_modified(list, c, track) == ChangesSet(list, c)

\* Changes::set_track_modified
set_track_modified(track) == TRUE

\* what Fetch::prepare does to the tracking of the component: the ChangeFilter
\* of filter/change.rs switches it on for the modified kind, the ModifiedFilter
\* of filter/mod.rs leaves it
ChangeFilter_prepare_track(g, track) ==
    IF g = "change" THEN set_track_modified(track) ELSE track

\* set_visited of the fetch for a slice the iteration visited: a mutable
\* fetch records the slice as modified at the tick of the run
set_visited(changes, slice, new_tick, MUTABLE) ==
    IF MUTABLE THEN ChangesSet(changes, Change(slice, new_tick, "modified")) ELSE changes

\* Query::get from the located slot on: the tick is advanced for a mutable
\* fetch and set_visited is called with Slice::new(slot, slot)
Query_get_visit(changes, world, slot, MUTABLE) ==
    LET new_tick == IF MUTABLE THEN advance_change_tick(world) ELSE change_tick(world)
    IN [world |-> new_tick,
        changes |-> set_visited(changes, SliceNew(slot, slot), new_tick, MUTABLE)]

\* QueryIter over the rest slots of one archetype: FilterIter with the
\* prepared filter, and set_visited after each slice it yields; out is the
\* slices yielded, changes the change list afterwards
RECURSIVE QueryIter_next(_, _, _, _, _, _)
QueryIter_next(f, changes, st, slots, new_tick, MUTABLE) ==
    LET n == FilterIter_next(f, <<changes>>, st, slots) IN
    IF n.res = "some"
    THEN LET rest == QueryIter_next(f, set_visited(changes, n.item, new_tick, MUTABLE),
                                    n.st, n.slots, new_tick, MUTABLE)
         IN [out |-> <<n.item>> \o rest.out, changes |-> rest.changes]
    ELSE [out |-> <<>>, changes |-> changes]

\* QueryIter::new over the archetype and the iteration to its end
QueryIter(g, changes, old_tick, new_tick, len, MUTABLE) ==
    QueryIter_next(QueryFilter(g), changes, QueryFilter_prepare(g, old_tick),
                   SliceNew(0, len), new_tick, MUTABLE)

(* ------------------------- borrow discipline ---------------------------- *)
\* a run-time checked cell: 0 is free, n > 0 is n shared borrows, -1 is the
\* exclusive borrow
try_borrow(cell) ==
    IF cell >= 0 THEN [ok |-> TRUE, cell |-> cell + 1] ELSE [ok |-> FALSE, cell |-> cell]

try_borrow_mut(cell) ==
    IF cell = 0 THEN [ok |-> TRUE, cell |-> -1] ELSE [ok |-> FALSE, cell |-> cell]

\* drop of a shared or of the exclusive borrow
release(cell) == IF cell > 0 THEN cell - 1 ELSE 0

\* the components of the archetype, each with a column cell and a change list cell
Comps == {"c", "d"}
Fetches == [comp : Comps, mutable : BOOLEAN]
NoFetch == [comp |-> "", mutable |-> FALSE]

\* Query::prepare of a fetch of one component: a read fetch borrows the column
\* shared, a mutable one borrows the column and the change list exclusively; a
\* failed borrow is returned as the error and what was borrowed is dropped
Query_borrow(cells, fetch) ==
    LET cell == cells[fetch.comp] IN
    IF ~fetch.mutable
    THEN LET b == try_borrow(cell.col) IN
         IF b.ok THEN [res |-> "ok", cells |-> [cells EXCEPT ![fetch.comp].col = b.cell]]
         ELSE [res |-> "Borrow", cells |-> cells]
    ELSE LET b == try_borrow_mut(cell.col)
             g == try_borrow_mut(cell.chg)
         IN IF b.ok /\ g.ok
            THEN [res |-> "ok",
                  cells |-> [cells EXCEPT ![fetch.comp] = [col |-> b.cell, chg |-> g.cell]]]
            ELSE [res |-> "BorrowMut", cells |-> cells]

\* a prepare that hands out the columns without asking the cells
borrow_unchecked(cells, fetch) == [res |-> "ok", cells |-> cells]

\* QueryData::borrow: prepares the query against the world of the context
QueryData_borrow(cells, fetch) == Query_borrow(cells, fetch)

\* drop of the prepared query
Query_drop(cells, fetch) ==
    IF fetch.mutable
    THEN [cells EXCEPT ![fetch.comp] = [col |-> release(@.col), chg |-> release(@.chg)]]
    ELSE [cells EXCEPT ![fetch.comp].col = release(@)]

(* ------------------------------ Schedule -------------------------------- *)
\* FunctionSystem::execute: a function returning a Result surfaces its error,
\* a function returning () always gives Ok
FunctionSystem_execute(kind, outcome) ==
    IF kind = "result" /\ outcome = "err" THEN "err" ELSE "ok"

\* Iterator::try_for_each over systems[i..]: stops at the first error
RECURSIVE try_for_each(_, _, _, _)
try_for_each(systems, outcomes, i, log) ==
    IF i > Len(systems) THEN [log |-> log, result |-> 0]
    ELSE IF FunctionSystem_execute(systems[i], outcomes[i]) = "err"
         THEN [log |-> Append(log, i), result |-> i]
         ELSE try_for_each(systems, outcomes, i + 1, Append(log, i))

\* an execution that runs every system and reports the first error at the end
RECURSIVE for_each(_, _, _, _, _)
for_each(systems, outcomes, i, log, err) ==
    IF i > Len(systems) THEN [log |-> log, result |-> err]
    ELSE for_each(systems, outcomes, i + 1, Append(log, i),
                  IF err = 0 /\ systems[i] = "result" /\ outcomes[i] = "err" THEN i ELSE err)

execute_all(systems, outcomes) == for_each(systems, outcomes, 1, <<>>, 0)

\* an execution that leaves out the first system
execute_seq_rest(systems, outcomes) == try_for_each(systems, outcomes, 2, <<>>)

\* Schedule::execute_seq: the systems executed, in order, and the result,
\* 0 for Ok(()) and i for the error of system i
execute_seq(systems, outcomes) == try_for_each(systems, outcomes, 1, <<>>)

\* the systems of log executed one after the other against one SystemContext:
\* each observes the world's entity count and may record a spawn command in
\* the context's command buffer; seen is what each observed, cmd the buffer
RECURSIVE execute_ctx(_, _, _, _, _)
execute_ctx(log, cmds, world, cmd, seen) ==
    IF log = <<>> THEN [world |-> world, cmd |-> cmd, seen |-> seen]
    ELSE execute_ctx(Tail(log), cmds, world,
                     IF cmds[Head(log)] = "spawn" THEN Append(cmd, "spawn") ELSE cmd,
                     Append(seen, world))

(* --------------------------- FunctionSystem ----------------------------- *)
\* the parameters of a function system, in the order of the tuple
Params == <<"&World", "&mut World", "&CommandBuffer", "&mut CommandBuffer", "Local",
            "ResMut<T>", "Res<T>", "ResMut<U>", "Res<U>", "ResourceBorrow<T>">>

\* the resources, the resource a parameter names and whether it takes it
\* mutably
Resources == {"T", "U"}
ResParams == {"ResMut<T>", "Res<T>", "ResMut<U>", "Res<U>"}
ResourceOf(p) == IF p \in {"ResMut<T>", "Res<T>", "ResourceBorrow<T>"} THEN "T" ELSE "U"
IsResMut(p) == p \in {"ResMut<T>", "ResMut<U>"}

\* SystemContext::new: the cells of the world and of the command buffer, and
\* the cells of the resource columns of the world, free
SystemContext_new == [world |-> 0, cmd |-> 0, T |-> 0, U |-> 0]

\* SystemContext::world, world_mut, cmd, cmd_mut: a borrow of the cell that
\* panics when the cell does not give it
SystemContext_borrow(cells, cell, mutable) ==
    LET b == IF mutable THEN try_borrow_mut(cells[cell]) ELSE try_borrow(cells[cell]) IN
    [ok |-> b.ok, cells |-> [cells EXCEPT ![cell] = b.cell]]

\* SystemParam::acquire of each parameter: the borrow it takes from the context
SystemParam_acquire(p, cells) ==
    CASE p = "&World" -> SystemContext_borrow(cells, "world", FALSE)
      [] p = "&mut World" -> SystemContext_borrow(cells, "world", TRUE)
      [] p = "&CommandBuffer" -> SystemContext_borrow(cells, "cmd", FALSE)
      [] p = "&mut CommandBuffer" -> SystemContext_borrow(cells, "cmd", TRUE)
      [] p \in ResParams \cup {"ResourceBorrow<T>"} -> SystemContext_borrow(cells, "world", FALSE)
      [] OTHER -> [ok |-> TRUE, cells |-> cells]

\* SystemParam::acquire of a tuple: each element in order; a panic unwinds
\* the guards taken so far
RECURSIVE Args_acquire(_, _, _)
Args_acquire(ps, i, cells) ==
    IF i > Len(Params) THEN [ok |-> TRUE, cells |-> cells]
    ELSE IF Params[i] \notin ps THEN Args_acquire(ps, i + 1, cells)
    ELSE LET a == SystemParam_acquire(Params[i], cells) IN
         IF a.ok THEN Args_acquire(ps, i + 1, a.cells)
         ELSE [ok |-> FALSE, cells |-> SystemContext_new]

\* World::get and World::get_mut of a component of the resources entity: the
\* error of a component the entity does not hold, or of a column cell that
\* does not give the borrow
World_get(held, t, cells, mutable) ==
    IF t \notin held THEN [err |-> "MissingComponent", cells |-> cells]
    ELSE LET b == SystemContext_borrow(cells, t, mutable) IN
         IF b.ok THEN [err |-> "none", cells |-> b.cells]
         ELSE [err |-> IF mutable THEN "BorrowMut" ELSE "Borrow", cells |-> cells]

\* AsBorrowed for ResData and ResMutData: the resource is taken from the
\* world and an error is a panic
ResData_as_borrowed(p, cells, held) ==
    LET g == World_get(held, ResourceOf(p), cells, IsResMut(p)) IN
    IF g.err = "none" THEN [res |-> "ok", fault |-> "none", err |-> "none", cells |-> g.cells]
    ELSE [res |-> "ExpectPanic", fault |-> g.err, err |-> "none", cells |-> cells]

\* AsBorrowed for ResourceQueryData and ResourceBorrow::get: the result of
\* the entity borrow is what the function is given
ResourceBorrow_get(p, cells, held) ==
    LET g == World_get(held, ResourceOf(p), cells, FALSE) IN
    [res |-> "ok", fault |-> g.err, err |-> g.err, cells |-> g.cells]

\* as_borrowed of a tuple: each element in order, up to the first panic;
\* fault is the first error met and err the error value the function is given
RECURSIVE Args_as_borrowed(_, _, _, _)
Args_as_borrowed(ps, i, cells, held) ==
    IF i > Len(Params) THEN [res |-> "ok", fault |-> "none", err |-> "none", cells |-> cells]
    ELSE IF Params[i] \notin ps \/ Params[i] \notin ResParams \cup {"ResourceBorrow<T>"}
    THEN Args_as_borrowed(ps, i + 1, cells, held)
    ELSE LET b == IF Params[i] \in ResParams THEN ResData_as_borrowed(Params[i], cells, held)
                  ELSE ResourceBorrow_get(Params[i], cells, held)
         IN IF b.res # "ok" THEN b
            ELSE LET r == Args_as_borrowed(ps, i + 1, b.cells, held) IN
                 IF b.fault = "none" THEN r
                 ELSE [r EXCEPT !.fault = b.fault, !.err = b.err]

\* drop of the value of one parameter: every guard gives its borrow back
Value_drop(p, cells) ==
    CASE p \in {"&World", "&mut World"} -> [cells EXCEPT !.world = release(@)]
      [] p \in {"&CommandBuffer", "&mut CommandBuffer"} -> [cells EXCEPT !.cmd = release(@)]
      [] p \in ResParams \cup {"ResourceBorrow<T>"} ->
            [cells EXCEPT !.world = release(@), ![ResourceOf(p)] = release(@)]
      [] OTHER -> cells

\* drop of the acquired data
RECURSIVE Data_drop(_, _, _)
Data_drop(ps, i, cells) ==
    IF i > Len(Params) THEN cells
    ELSE Data_drop(ps, i + 1, IF Params[i] \in ps THEN Value_drop(Params[i], cells) ELSE cells)

\* an execute that keeps the data it was given
SystemParamFunction_execute_keep(ps, cells) == cells

\* SystemParamFunction::execute: the data is moved into the call, which ends
\* with the data dropped
SystemParamFunction_execute(ps, cells) == Data_drop(ps, 1, cells)

\* CommandBuffer::apply of recorded spawn commands
CommandBuffer_apply(cmd, world) == world + Len(cmd)

\* the end of run_with: the command buffer and the world are borrowed
\* exclusively from the context and the buffer is applied
run_with_apply(cells, cmd, world) ==
    LET c == SystemContext_borrow(cells, "cmd", TRUE)
        w == SystemContext_borrow(cells, "world", TRUE)
    IN IF c.ok /\ w.ok THEN [res |-> "ok", world |-> CommandBuffer_apply(cmd, world)]
       ELSE [res |-> "BorrowPanic", world |-> world]

\* LocalState(T::default())
LocalState_default == 0

\* the state of a system whose init_state was not called
NoState == [init |-> FALSE, local |-> -1]

\* IntoSystem::into_system: the function and no state
into_system(ps) == [params |-> ps, state |-> NoState]

\* InitState::init_state: the state of every parameter, a Local at its default
init_state(sys) == [sys EXCEPT !.state = [init |-> TRUE, local |-> LocalState_default]]

\* IntoSystemExt::boxed: into_system and init_state
boxed(ps) == init_state(into_system(ps))

\* a Local that is made anew at each acquire
Local_acquire_default(state) == LocalState_default

\* SystemParam::acquire of Local: a reference to the value in the state
Local_acquire(state) == state.local

\* AccessKind: the world, the command buffer, or the column of a component
\* in an archetype (named by its signature)
AccessKind_World == [name |-> "World", arch |-> {}, component |-> ""]
AccessKind_CommandBuffer == [name |-> "CommandBuffer", arch |-> {}, component |-> ""]
AccessKind_Archetype(arch, c) == [name |-> "Archetype", arch |-> arch, component |-> c]

\* Access { kind, mutable }
Access(kind, mutable) == [kind |-> kind, mutable |-> mutable]

\* two access sets conflict when they hold the same kind with one of the two
\* mutable, or when either holds the exclusive access to the world
Access_conflicts(a, b) ==
    \/ \E x \in a, y \in b : x.kind = y.kind /\ (x.mutable \/ y.mutable)
    \/ Access(AccessKind_World, TRUE) \in a \cup b

\* parameters that all declare a shared access
SystemParamAccess_access_shared(p) ==
    CASE p \in {"&World", "&mut World"} -> {Access(AccessKind_World, FALSE)}
      [] p \in {"&CommandBuffer", "&mut CommandBuffer"} ->
            {Access(AccessKind_CommandBuffer, FALSE)}
      [] OTHER -> {}

\* SystemParamAccess::access of the world and command buffer parameters
SystemParamAccess_access(p) ==
    CASE p = "&World" -> {Access(AccessKind_World, FALSE)}
      [] p = "&mut World" -> {Access(AccessKind_World, TRUE)}
      [] p = "&CommandBuffer" -> {Access(AccessKind_CommandBuffer, FALSE)}
      [] p = "&mut CommandBuffer" -> {Access(AccessKind_CommandBuffer, TRUE)}
      [] OTHER -> {}

\* Component::access of the fetch of a resource in an archetype
Component_access(arch, t, mutable) == {Access(AccessKind_Archetype(arch, t), mutable)}

\* the archetypes of the world that hold the component: the archetype of the
\* resources entity, named by its signature
find_archetypes(held, t) == IF t \in held THEN {held} ELSE {}

\* SystemAccess for Res: the shared access to the column of the resource in
\* every archetype that holds it, and the shared access to the world
Res_access(t, held) ==
    UNION {Component_access(arch, t, FALSE) : arch \in find_archetypes(held, t)}
        \cup {Access(AccessKind_World, FALSE)}

\* a ResMut that declares what Res declares
ResMut_access_shared(t, held) == Res_access(t, held)

\* SystemAccess for ResMut: as for Res, with the fetch made mutable
ResMut_access(t, held) ==
    UNION {Component_access(arch, t, TRUE) : arch \in find_archetypes(held, t)}
        \cup {Access(AccessKind_World, FALSE)}

\* the accesses a resource parameter declares against the world
SystemAccess_access(p, held) ==
    IF IsResMut(p) THEN ResMut_access(ResourceOf(p), held)
    ELSE Res_access(ResourceOf(p), held)

(* ------------------- system inputs and QueryBorrow state ---------------- *)
\* the inputs given with with_input: queries of two types and a value of
\* another type, each with its content
QueryTypes == {"Query<A>", "Query<B>"}
InputTypes == QueryTypes \cup {"i32"}
Inputs == [type : InputTypes, value : 1..MaxValue]
NoInput == [type |-> "none", value |-> 0]

\* the parameters that take their state from an input
QueryParams == {"QueryBorrow<A>", "QueryBorrow<B>"}
\* QueryBorrow<Q, F>::State = Query<Q, F, Planar>
QueryOf(p) == IF p = "QueryBorrow<A>" THEN "Query<A>" ELSE "Query<B>"

\* extract_dyn that takes the first query given, whatever its type
extract_dyn_any_query(input, ty) ==
    LET hits == {k \in 1..Len(input) : input[k].type \in QueryTypes}
    IN IF hits = {} THEN NoInput ELSE input[CHOOSE k \in hits : \A j \in hits : k <= j]

\* ExtractDyn for a tuple of ErasedCell: the first cell whose TypeId is ty
extract_dyn(input, ty) ==
    LET hits == {k \in 1..Len(input) : input[k].type = ty}
    IN IF hits = {} THEN NoInput ELSE input[CHOOSE k \in hits : \A j \in hits : k <= j]

\* InitStateContext::input::<T>()
InitStateContext_input(input, ty) == extract_dyn(input, ty)

\* Query::clone
Query_clone(q) == [type |-> q.type, value |-> q.value]

\* SystemParam for QueryBorrow::init_state: expect("query not set"), then clone
QueryBorrow_init_state(input, p) ==
    LET query == InitStateContext_input(input, QueryOf(p)) IN
    IF query = NoInput THEN [ok |-> FALSE, state |-> NoInput]
    ELSE [ok |-> TRUE, state |-> Query_clone(query)]

\* SystemParam for a tuple: init_state of every parameter; a panic of one is
\* the panic of the whole
Args_init_state(ps, input) ==
    LET one(p) == IF p \in QueryParams THEN QueryBorrow_init_state(input, p)
                  ELSE [ok |-> TRUE, state |-> [type |-> p, value |-> LocalState_default]]
    IN IF \E p \in ps : ~one(p).ok
       THEN [res |-> "query not set", state |-> <<>>]
       ELSE [res |-> "ok", state |-> [p \in ps |-> one(p).state]]

\* IntoSystemExt::with_input on a function, and on a WithInput (push_right)
IntoSystemExt_with_input(ps, i) == [params |-> ps, input |-> <<i>>]
WithInput_with_input(w, i) == [w EXCEPT !.input = Append(@, i)]

\* WithInput::system: init_state over the inputs given
WithInput_system(w) == Args_init_state(w.params, w.input)

\* IntoSystemExt::boxed on a function: init_state over no input
IntoSystemExt_boxed(ps) == Args_init_state(ps, <<>>)

(* ------------------------- World: entities ------------------------------ *)
\* the components of the world specification; a signature is a set of them
WComps == {"a", "b"}

\* an entity id: index into the entity index and generation
Entity(index, gen) == [index |-> index, gen |-> gen]
NoEntity == Entity(0, 0)

\* an entity location: archetype id (position in the world's archetype list)
\* and slot; NoLoc is the entry of a free index
Loc(arch, slot) == [arch |-> arch, slot |-> slot]
NoLoc == Loc(0, 0)

\* World::new: no entity index entry, no archetype, archetype generation 0
WorldNew == [index |-> <<>>, archs |-> <<>>, gen |-> 0]

\* Archetype::new: the signature, the entity column and one column per
\* component; a column holds, for each slot, the entity whose value it stores
ArchetypeNew(sig) == [sig |-> sig, entities |-> <<>>, cols |-> [c \in sig |-> <<>>]]

\* Archetype::has
has(arch, c) == c \in arch.sig

\* World::is_alive: the index entry carries the id's generation and a location
is_alive(w, e) ==
    /\ e.index \in 1..Len(w.index)
    /\ w.index[e.index].gen = e.gen
    /\ w.index[e.index].loc # NoLoc

\* World::location
location(w, e) == IF is_alive(w, e) THEN w.index[e.index].loc ELSE NoLoc

\* the id of the archetype with the signature, 0 if the world has none
find_archetype(w, sig) ==
    LET ids == {a \in 1..Len(w.archs) : w.archs[a].sig = sig}
    IN IF ids = {} THEN 0 ELSE CHOOSE a \in ids : TRUE

\* the archetype of a signature, created when the world has none; a new
\* archetype advances the archetype generation
fetch_archetype(w, sig) ==
    IF find_archetype(w, sig) # 0 THEN w
    ELSE [w EXCEPT !.archs = Append(@, ArchetypeNew(sig)), !.gen = @ + 1]

\* Archetype::push: the entity column and every column grow by one slot
Archetype_push(arch, e) ==
    [arch EXCEPT !.entities = Append(@, e),
                 !.cols = [c \in arch.sig |-> Append(arch.cols[c], e)]]

\* Vec::swap_remove at the 1-based position k
SwapRemove(seq, k) ==
    LET n == Len(seq) IN
    [i \in 1..(n - 1) |-> IF i = k /\ k < n THEN seq[n] ELSE seq[i]]

\* Archetype::swap_remove that leaves the component columns as they are
Archetype_swap_remove_entities(arch, slot) ==
    LET n == Len(arch.entities) IN
    [arch |-> [arch EXCEPT !.entities = SwapRemove(@, slot + 1)],
     moved |-> IF slot + 1 = n THEN NoEntity ELSE arch.entities[n]]

\* Archetype::swap_remove: the last slot fills the removed one in the entity
\* column and in every column; moved is the entity that changed slot
Archetype_swap_remove(arch, slot) ==
    LET n == Len(arch.entities) IN
    [arch |-> [arch EXCEPT !.entities = SwapRemove(@, slot + 1),
                           !.cols = [c \in arch.sig |-> SwapRemove(arch.cols[c], slot + 1)]],
     moved |-> IF slot + 1 = n THEN NoEntity ELSE arch.entities[n]]

\* the entity at loc leaves its archetype; the index entry of the entity that
\* filled its slot is updated
World_take(w, loc) ==
    LET r == Archetype_swap_remove(w.archs[loc.arch], loc.slot)
        w1 == [w EXCEPT !.archs[loc.arch] = r.arch]
    IN IF r.moved = NoEntity THEN w1
       ELSE [w1 EXCEPT !.index[r.moved.index].loc = loc]

\* the entity e enters the archetype of the signature at its last slot
World_put(w, e, sig) ==
    LET w1 == fetch_archetype(w, sig)
        a == find_archetype(w1, sig)
        arch == Archetype_push(w1.archs[a], e)
    IN [w1 EXCEPT !.archs[a] = arch,
                  !.index[e.index].loc = Loc(a, Len(arch.entities) - 1)]

\* Archetype::move_to: the entity at loc migrates to the archetype of sig
World_move(w, e, sig) == World_put(World_take(w, location(w, e)), e, sig)

\* the indices allocate can hand out: a free entry or a fresh one
FreeIndices(w) ==
    {i \in 1..Len(w.index) : w.index[i].loc = NoLoc}
        \cup (IF Len(w.index) < MaxIndex THEN {Len(w.index) + 1} ELSE {})

\* World::spawn_with at the index i: a fresh entry starts at generation 1, a
\* recycled one carries the generation its despawn left
spawn_with(w, i, buffer) ==
    LET w1 == IF i > Len(w.index)
              THEN [w EXCEPT !.index = Append(@, [gen |-> 1, loc |-> NoLoc])]
              ELSE w
        e == Entity(i, w1.index[i].gen)
    IN [world |-> World_put(w1, e, buffer), id |-> e]

\* World::despawn: the entity leaves its archetype, the index entry is freed
\* and its generation bumped
despawn(w, e) ==
    IF ~is_alive(w, e) THEN [world |-> w, res |-> "NoSuchEntity"]
    ELSE LET w1 == World_take(w, location(w, e))
         IN [world |-> [w1 EXCEPT !.index[e.index] = [gen |-> e.gen + 1, loc |-> NoLoc]],
             res |-> "ok"]

\* the signature of the archetype of a live entity
signature(w, e) == w.archs[location(w, e).arch].sig

\* World::set: a component the entity lacks migrates it along the add edge
set(w, e, c) ==
    IF ~is_alive(w, e) THEN [world |-> w, res |-> "NoSuchEntity"]
    ELSE IF c \in signature(w, e) THEN [world |-> w, res |-> "ok"]
    ELSE [world |-> World_move(w, e, signature(w, e) \cup {c}), res |-> "ok"]

\* World::remove: migrates the entity along the remove edge
remove(w, e, c) ==
    IF ~is_alive(w, e) THEN [world |-> w, res |-> "NoSuchEntity"]
    ELSE IF c \notin signature(w, e) THEN [world |-> w, res |-> "MissingComponent"]
    ELSE [world |-> World_move(w, e, signature(w, e) \ {c}), res |-> "ok"]

\* World::get: the value of the component of the entity, or the error
get(w, e, c) ==
    IF ~is_alive(w, e) THEN [res |-> "NoSuchEntity", value |-> NoEntity]
    ELSE LET loc == location(w, e) IN
         IF ~has(w.archs[loc.arch], c) THEN [res |-> "MissingComponent", value |-> NoEntity]
         ELSE [res |-> "ok", value |-> w.archs[loc.arch].cols[c][loc.slot + 1]]

\* ComponentBuffer::new: no component
ComponentBuffer_new == [c \in {} |-> 0]

\* ComponentBuffer::insert: the value of the component, in place of one set
\* before
ComponentBuffer_insert(buffer, c, v) ==
    [x \in DOMAIN buffer \cup {c} |-> IF x = c THEN v ELSE buffer[x]]

\* a set that keeps the value the component was given first
EntityBuilder_set_first(buffer, c, v) ==
    IF c \in DOMAIN buffer THEN buffer ELSE ComponentBuffer_insert(buffer, c, v)

\* EntityBuilder::set
EntityBuilder_set(buffer, c, v) == ComponentBuffer_insert(buffer, c, v)

\* what World::spawn_with leaves of the buffer it was handed: the components
\* are moved out
ComponentBuffer_drain(buffer) == ComponentBuffer_new

\* EntityBuilder::spawn that hands an empty buffer to the world
EntityBuilder_spawn_empty(w, i, buffer) == spawn_with(w, i, {})

\* EntityBuilder::spawn: spawns the entity with the components of the buffer
EntityBuilder_spawn(w, i, buffer) == spawn_with(w, i, buffer)

\* Query::get that trusts the index entry of the id whatever its generation
Query_get_by_index(w, fetch, e) ==
    LET loc == IF e.index \in 1..Len(w.index) THEN w.index[e.index].loc ELSE NoLoc IN
    IF loc = NoLoc THEN [res |-> "None", item |-> NoEntity]
    ELSE IF ~(fetch \subseteq w.archs[loc.arch].sig) THEN [res |-> "None", item |-> NoEntity]
    ELSE [res |-> "Some", item |-> w.archs[loc.arch].entities[loc.slot + 1]]

\* Query::get of a query fetching the components of fetch: None for an entity
\* without location or an archetype the fetch does not match
Query_get(w, fetch, e) ==
    LET loc == location(w, e) IN
    IF loc = NoLoc THEN [res |-> "None", item |-> NoEntity]
    ELSE IF ~(fetch \subseteq w.archs[loc.arch].sig) THEN [res |-> "None", item |-> NoEntity]
    ELSE [res |-> "Some", item |-> w.archs[loc.arch].entities[loc.slot + 1]]

\* the ids of the live entities
Alive(w) == {Entity(i, w.index[i].gen) : i \in {j \in 1..Len(w.index) : w.index[j].loc # NoLoc}}

\* the live entities that hold the component
Holders(w, c) == {e \in Alive(w) : c \in signature(w, e)}

\* despawn of the entity of a component: the component is removed from every
\* entity of es, the entities that hold it
RECURSIVE remove_from(_, _, _)
remove_from(w, c, es) ==
    IF es = {} THEN w
    ELSE LET e == CHOOSE x \in es : TRUE
         IN remove_from(remove(w, e, c).world, c, es \ {e})

\* despawn of the entity of a component that leaves the entities holding it
despawn_component_only(w, c) == w

despawn_component(w, c) == remove_from(w, c, Holders(w, c))

\* entity count and column lengths of the archetype of every signature; a
\* signature without archetype counts as holding nothing
Shape(w) ==
    [sig \in SUBSET WComps |->
        LET a == find_archetype(w, sig) IN
        IF a = 0 THEN [n |-> 0, cols |-> [c \in sig |-> 0]]
        ELSE [n |-> Len(w.archs[a].entities),
              cols |-> [c \in sig |-> Len(w.archs[a].cols[c])]]]

(* ------------------------ Query over the World --------------------------- *)
\* filters on the signature of an archetype
With(c) == [op |-> "with", component |-> c]
Without(c) == [op |-> "without", component |-> c]

\* Filter::matches of All, With, Without and And
RECURSIVE matches(_, _)
matches(f, arch) ==
    CASE f.op = "all" -> TRUE
      [] f.op = "with" -> has(arch, f.component)
      [] f.op = "without" -> ~has(arch, f.component)
      [] f.op = "and" -> matches(f.left, arch) /\ matches(f.right, arch)

\* Fetch::matches of a tuple of components: the archetype has every one
Fetch_matches(fetch, arch) == \A c \in fetch : has(arch, c)

\* Query::new(fetch).filter(g)
QueryNew(fetch, g) ==
    [fetch |-> fetch, filter |-> And(All, g), archetype_gen |-> 0,
     archetypes |-> <<>>, ran |-> FALSE, items |-> <<>>,
     runs |-> 0, rebuilt |-> <<>>, seen |-> <<>>]

\* the ids of the archetypes from a on that the fetch matches, in ascending order
RECURSIVE ArchetypeIds(_, _, _)
ArchetypeIds(w, fetch, a) ==
    IF a > Len(w.archs) THEN <<>>
    ELSE (IF Fetch_matches(fetch, w.archs[a]) THEN <<a>> ELSE <<>>)
             \o ArchetypeIds(w, fetch, a + 1)

\* the test of Query::get_archetypes that decides whether the cache is rebuilt
get_archetypes_rebuilds(q, w) == w.gen > q.archetype_gen

\* Query::get_archetypes with a cache that is filled once and then kept
get_archetypes_once(q, w) ==
    IF q.archetypes = <<>> THEN ArchetypeIds(w, q.fetch, 1) ELSE q.archetypes

\* Query::get_archetypes: the cached list, rebuilt from the archetypes the
\* fetch matches when the world's archetype generation is greater than the
\* query's, which the rebuild leaves as it was
get_archetypes(q, w) ==
    IF get_archetypes_rebuilds(q, w) THEN ArchetypeIds(w, q.fetch, 1) ELSE q.archetypes

\* the entities at the slots of a sequence of slices, in order
RECURSIVE EntitiesAt(_, _)
EntitiesAt(arch, slices) ==
    IF slices = <<>> THEN <<>>
    ELSE SubSeq(arch.entities, Head(slices).start + 1, Head(slices).end)
             \o EntitiesAt(arch, Tail(slices))

\* the items of one archetype: none when the fetch's prepare fails; All, With
\* and Without prepare into a BooleanFilter of their matches, and FilterIter
\* is driven over [0, len)
ArchetypeItems(q, arch) ==
    IF ~Fetch_matches(q.fetch, arch) THEN <<>>
    ELSE EntitiesAt(arch, Collect(And(All, All), <<>>,
                                  PairState(matches(q.filter.left, arch),
                                            matches(q.filter.right, arch)),
                                  SliceNew(0, Len(arch.entities))))

\* the items of the archetypes of a list, in the order of the list
RECURSIVE ItemsOf(_, _, _)
ItemsOf(q, w, ids) ==
    IF ids = <<>> THEN <<>>
    ELSE ArchetypeItems(q, w.archs[Head(ids)]) \o ItemsOf(q, w, Tail(ids))

\* Query::iter collected: the cache is brought up to date, then every cached
\* archetype is iterated
Query_iter(q, w) ==
    LET ids == get_archetypes(q, w) IN
    [q EXCEPT !.archetypes = ids, !.ran = TRUE, !.items = ItemsOf(q, w, ids)]

(* ------------------------------ state ----------------------------------- *)
VARIABLES
    f_chg,      \* the change lists of two components of one archetype
    f_tick,     \* tick of the latest Changes::set
    f_phase,    \* "build", "iter", "done" or "panic"
    f_op,       \* the filter the FilterIter drives
    f_st,       \* the prepared filter's state
    f_range,    \* the slice the FilterIter was created with
    f_slots,    \* FilterIter.slots, the slots still to search
    f_out,      \* the slices yielded so far
    f_call,     \* the last direct call of filter_slots: input, result, and whether
                \* every call so far began where the slices returned before end
    f_late,     \* what FilterIter::next returned on the calls made after it returned None
    f_has,      \* the components the archetype has (Archetype::has)
    w_tick,     \* World: the change tick
    w_len,      \* the archetype's entity count (every entity holds component c)
    w_chg,      \* the archetype's change list of component c
    w_track,    \* whether modification tracking of c was switched on (set_track_modified)
    q_filter,   \* Query.filter: "change" (ChangeFilter modified) or "modified" (ModifiedFilter)
    q_mutable,  \* Q::MUTABLE of Query.fetch
    q_tick,     \* Query.change_tick
    q_runs,     \* how often Query::iter ran
    q_dirty,    \* slots of c written since the query's last run
    q_mut,      \* the kinds of mutation of the world since the query's last run
    q_last,     \* what the last run saw and yielded
    q_got,      \* the slot and the world's tick of a Query::get just made
    b_cells,    \* the cells of each component of the archetype
    b_held,     \* the fetch each handle's prepared query holds
    b_res,      \* the result of each handle's last prepare
    b_fail,     \* the fetch of each handle's last failed prepare
    s_systems,  \* Schedule.systems: the kind of function of each system
    s_runs,     \* how often each system was executed
    s_execs,    \* how often execute_seq ran
    s_last,     \* the last execute_seq: systems, outcomes, log, result, and whether
                \* the execution before it failed
    s_world,    \* entities of the world the schedule executes on
    v_world,    \* World: entity index, archetypes and archetype generation
    v_comps,    \* the components whose entity is alive
    v_born,     \* the ids spawned so far, in spawn order
    v_dead,     \* the ids despawned so far
    v_has,      \* the components set on each live entity
    v_last,     \* the last operation on the world
    v_q,        \* a query over the world: fetch, filter, cache and last items
    r_sys,      \* the function systems: parameters and state of each
    r_run,      \* the run_with in progress: system, position, cells, command buffer
    r_world,    \* entities of the world the systems are run on
    r_wrote,    \* the value each system's latest execution left in its Local
    r_res,      \* the resources the resources entity of the world holds
    r_last,     \* the last run_with that ended: what it recorded, read and returned
    e_buffer,   \* EntityBuilder.buffer: the value of each component set
    e_since,    \* the value last set for each component since the previous spawn
    e_last,     \* the last spawn of the builder: the id and the values it moved
    i_with,     \* the WithInput under construction: the function's parameters and the inputs
    i_last      \* the last system() or boxed(), until another function is taken up: what
                \* was given and the state initialised

fvars == <<f_chg, f_tick, f_phase, f_op, f_st, f_range, f_slots, f_out, f_call, f_late, f_has>>
qvars == <<w_tick, w_len, w_chg, w_track, q_filter, q_mutable, q_tick, q_runs, q_dirty, q_mut, q_last,
           q_got>>

bvars == <<b_cells, b_held, b_res, b_fail>>
svars == <<s_systems, s_runs, s_execs, s_last, s_world>>
vvars == <<v_world, v_comps, v_born, v_dead, v_has, v_last, v_q>>
rvars == <<r_sys, r_run, r_world, r_wrote, r_res, r_last>>
evars == <<e_buffer, e_since, e_last>>
ivars == <<i_with, i_last>>

vars == <<f_chg, f_tick, f_phase, f_op, f_st, f_range, f_slots, f_out, f_call, f_late, f_has,
          w_tick, w_len, w_chg, w_track, q_filter, q_mutable, q_tick, q_runs, q_dirty, q_mut,
          q_last,
          q_got,
          b_cells, b_held, b_res, b_fail, s_systems, s_runs, s_execs, s_last, s_world,
          v_world, v_comps, v_born, v_dead, v_has, v_last, v_q,
          r_sys, r_run, r_world, r_wrote, r_res, r_last,
          e_buffer, e_since, e_last, i_with, i_last>>

Handles == 1..MaxHandles

NoExec == [systems |-> <<>>, outcomes |-> <<>>, log |-> <<>>, result |-> -1,
           cmds |-> <<>>, before |-> 0, seen |-> <<>>, cmd |-> <<>>, prev |-> FALSE]

\* no Query::get since the last other operation
NoGet == [slot |-> -1, world |-> -1]

NoRun == [old |-> 0, new |-> 0, world |-> 0, len |-> 0, expect |-> {}, since |-> {},
          prev |-> {}, yield |-> {}]

\* no direct call of filter_slots yet
NoCall == [called |-> FALSE, slots |-> empty, out |-> empty, advancing |-> TRUE, hi |-> 0,
           cur |-> None]

FInit ==
    /\ f_chg = <<<<>>, <<>>>>
    /\ f_tick = 1
    /\ f_phase = "build"
    /\ f_op = "none"
    /\ f_st = KindState(0, "modified")
    /\ f_range = empty
    /\ f_slots = empty
    /\ f_out = <<>>
    /\ f_call = NoCall
    /\ f_late = <<>>
    /\ f_has = {1, 2}

\* World::new and Query::new(fetch).filter(f)
QInit(filters) ==
    /\ w_tick = 0
    /\ w_len = 0
    /\ w_chg = <<>>
    /\ w_track = FALSE
    /\ q_filter \in filters
    /\ q_mutable \in BOOLEAN
    /\ q_tick = 0
    /\ q_runs = 0
    /\ q_dirty = {}
    /\ q_mut = {}
    /\ q_last = NoRun
    /\ q_got = NoGet

\* an archetype with no borrow of any cell
BInit ==
    /\ b_cells = [c \in Comps |-> [col |-> 0, chg |-> 0]]
    /\ b_held = [h \in Handles |-> NoFetch]
    /\ b_res = [h \in Handles |-> "none"]
    /\ b_fail = [h \in Handles |-> NoFetch]

\* Schedule::new
SInit ==
    /\ s_systems = <<>>
    /\ s_runs = <<>>
    /\ s_execs = 0
    /\ s_last = NoExec
    /\ s_world = 0

\* no run_with in progress, and no run_with ended yet
NoRunWith == [sys |-> 0, pc |-> "idle", cells |-> SystemContext_new, cmd |-> <<>>,
              before |-> 0, read |-> -1, prev |-> -1, fault |-> "none", err |-> "none"]
NoLastRun == [sys |-> 0, params |-> {}, result |-> "none", recorded |-> 0, before |-> 0,
              direct |-> 0, after |-> 0, read |-> -1, prev |-> -1,
              fault |-> "none", err |-> "none"]

RInit ==
    /\ r_sys = <<>>
    /\ r_run = NoRunWith
    /\ r_world = 0
    /\ r_wrote = <<>>
    /\ r_res = {}
    /\ r_last = NoLastRun

\* no spawn of the builder yet
NoBuilt == [id |-> NoEntity, values |-> ComponentBuffer_new, since |-> ComponentBuffer_new,
            n |-> 0]

EInit ==
    /\ e_buffer = ComponentBuffer_new
    /\ e_since = ComponentBuffer_new
    /\ e_last = NoBuilt

\* no WithInput under construction, no system made with inputs yet
NoWith == [params |-> {}, input |-> <<>>]
NoMade == [via |-> "none", params |-> {}, input |-> <<>>, res |-> "none", state |-> <<>>]

IInit ==
    /\ i_with = NoWith
    /\ i_last = NoMade

\* the shape recorded by an operation that is not a set
NoShape == [sig \in SUBSET WComps |-> [n |-> -1, cols |-> [c \in sig |-> -1]]]

\* what v_last records of the last operation on the world. A set that
\* succeeded: its entity and component, whether it migrated the entity, and
\* pre, the shape of the world before it. A remove that succeeded: the same,
\* with the pre of the migrating set of the same component on the same entity
\* that it directly follows, if it does. The despawn of a component: the component
\* and whether an entity held it. Every other operation: nothing
NoOp == [op |-> "none", e |-> NoEntity, c |-> "none", res |-> "none",
         moved |-> FALSE, pre |-> NoShape]

\* World::new, every component alive, and a query Query::new(fetch).filter(g)
VInit(fetches, filters) ==
    /\ v_world = WorldNew
    /\ v_comps = WComps
    /\ v_born = <<>>
    /\ v_dead = {}
    /\ v_has = [e \in {} |-> {}]
    /\ v_last = NoOp
    /\ v_q \in {QueryNew(fetch, g) : fetch \in fetches, g \in filters}

\* every part as constructed, with a read-only query carrying the filter of
\* filter/change.rs
Init ==
    /\ FInit /\ QInit({"change"}) /\ q_mutable = FALSE /\ BInit /\ SInit /\ RInit /\ EInit /\ IInit
    /\ VInit({WComps}, {All})

\* every part as constructed, with a query of either change filter, read-only
\* or mutable
InitQuery ==
    /\ FInit /\ QInit({"change", "modified"}) /\ BInit /\ SInit /\ RInit /\ EInit /\ IInit
    /\ VInit({WComps}, {All})

\* every part as constructed, with a query over the world that fetches a or
\* both components and filters on the presence of b or not at all
InitWorld ==
    /\ FInit /\ QInit({"change"}) /\ q_mutable = FALSE /\ BInit /\ SInit /\ RInit /\ EInit /\ IInit
    /\ VInit({{"a"}, WComps}, {All, With("b"), Without("b")})

\* into_system alone: a system whose state is not initialised
RIntoSystem(paramsets) ==
    /\ r_run.pc = "idle"
    /\ Len(r_sys) < MaxFns
    /\ \E ps \in paramsets :
        /\ r_sys' = Append(r_sys, into_system(ps))
        /\ r_wrote' = Append(r_wrote, -1)
    /\ UNCHANGED <<r_run, r_world, r_res, r_last>>
    /\ UNCHANGED <<fvars, qvars, bvars, svars, vvars, evars, ivars>>

\* boxed: a system with its state initialised
RBoxed(paramsets) ==
    /\ r_run.pc = "idle"
    /\ Len(r_sys) < MaxFns
    /\ \E ps \in paramsets :
        /\ r_sys' = Append(r_sys, boxed(ps))
        /\ r_wrote' = Append(r_wrote, -1)
    /\ UNCHANGED <<r_run, r_world, r_res, r_last>>
    /\ UNCHANGED <<fvars, qvars, bvars, svars, vvars, evars, ivars>>

\* init_state of a system made by into_system
RInitState ==
    /\ r_run.pc = "idle"
    /\ \E i \in 1..Len(r_sys) :
        /\ ~r_sys[i].state.init
        /\ r_sys' = [r_sys EXCEPT ![i] = init_state(@)]
    /\ UNCHANGED <<r_run, r_world, r_wrote, r_res, r_last>>
    /\ UNCHANGED <<fvars, qvars, bvars, svars, vvars, evars, ivars>>

\* the parameter lists of the functions given inputs
InputParams == {{"QueryBorrow<A>"}, {"QueryBorrow<B>"}, {"QueryBorrow<A>", "QueryBorrow<B>"},
                {"Local"}, {"QueryBorrow<A>", "Local"}}

\* f.with_input(i), or with_input(i) on the WithInput under construction
IWithInput ==
    /\ \E i \in Inputs :
        IF i_with = NoWith
        THEN \E ps \in InputParams : i_with' = IntoSystemExt_with_input(ps, i)
        ELSE /\ Len(i_with.input) < MaxInputs
             /\ i_with' = WithInput_with_input(i_with, i)
    /\ i_last' = NoMade
    /\ UNCHANGED <<fvars, qvars, bvars, svars, vvars, rvars, evars>>

\* system() or boxed() of the WithInput under construction
IWithSystem ==
    /\ i_with # NoWith
    /\ \E via \in {"system", "boxed"} :
        LET r == WithInput_system(i_with) IN
        i_last' = [via |-> via, params |-> i_with.params, input |-> i_with.input,
                   res |-> r.res, state |-> r.state]
    /\ i_with' = NoWith
    /\ UNCHANGED <<fvars, qvars, bvars, svars, vvars, rvars, evars>>

\* f.boxed() of a function that was given no input
IBoxed ==
    /\ i_with = NoWith
    /\ \E ps \in InputParams :
        LET r == IntoSystemExt_boxed(ps) IN
        i_last' = [via |-> "boxed", params |-> ps, input |-> <<>>,
                   res |-> r.res, state |-> r.state]
    /\ UNCHANGED i_with
    /\ UNCHANGED <<fvars, qvars, bvars, svars, vvars, rvars, evars>>

\* World::set of a resource on the resources entity
RSetResource ==
    /\ r_run.pc = "idle"
    /\ \E t \in Resources \ r_res : r_res' = r_res \cup {t}
    /\ UNCHANGED <<r_sys, r_run, r_world, r_wrote, r_last>>
    /\ UNCHANGED <<fvars, qvars, bvars, svars, vvars, evars, ivars>>

\* World::remove of a resource from the resources entity
RRemoveResource ==
    /\ r_run.pc = "idle"
    /\ \E t \in r_res : r_res' = r_res \ {t}
    /\ UNCHANGED <<r_sys, r_run, r_world, r_wrote, r_last>>
    /\ UNCHANGED <<fvars, qvars, bvars, svars, vvars, evars, ivars>>

\* run_with up to the acquire: a new command buffer and context over the
\* world given, the state unwrapped, the parameters acquired
RunAcquire(worlds) ==
    /\ r_run.pc = "idle"
    /\ \E i \in 1..Len(r_sys), world \in worlds :
        LET sys == r_sys[i]
            a == Args_acquire(sys.params, 1, SystemContext_new)
            panic(res) == [NoLastRun EXCEPT !.sys = i, !.params = sys.params, !.result = res,
                                            !.before = world, !.after = world]
        IN
        /\ r_world' = world
        /\ IF ~sys.state.init
           THEN r_last' = panic("UnwrapPanic") /\ r_run' = r_run
           ELSE IF ~a.ok
           THEN r_last' = panic("AcquirePanic") /\ r_run' = r_run
           ELSE /\ r_run' = [sys |-> i, pc |-> "acquired", cells |-> a.cells, cmd |-> <<>>,
                             before |-> world,
                             read |-> IF "Local" \in sys.params THEN Local_acquire(sys.state)
                                      ELSE -1,
                             prev |-> r_wrote[i], fault |-> "none", err |-> "none"]
                /\ r_last' = r_last
    /\ UNCHANGED <<r_sys, r_wrote, r_res>>
    /\ UNCHANGED <<fvars, qvars, bvars, svars, vvars, evars, ivars>>

\* run_with at func.execute(data): the data is borrowed for the call; the
\* function records commands in a command buffer it holds exclusively, spawns
\* into a world it holds exclusively, writes its Local, and the data is
\* consumed. A panic of the borrow ends the run.
RunExecute ==
    /\ r_run.pc = "acquired"
    /\ LET i == r_run.sys
           ps == r_sys[i].params
           b == Args_as_borrowed(ps, 1, r_run.cells, r_res)
       IN IF b.res # "ok"
          THEN /\ r_last' = [NoLastRun EXCEPT !.sys = i, !.params = ps, !.result = b.res,
                                              !.before = r_run.before, !.after = r_world,
                                              !.read = r_run.read, !.prev = r_run.prev,
                                              !.fault = b.fault]
               /\ r_run' = NoRunWith
               /\ UNCHANGED <<r_world, r_sys, r_wrote>>
          ELSE /\ \E n \in 0..MaxCmds, d \in 0..1, v \in 0..MaxLocal :
                    /\ "&mut CommandBuffer" \notin ps => n = 0
                    /\ "&mut World" \notin ps => d = 0
                    /\ "Local" \notin ps => v = r_sys[i].state.local
                    /\ r_run' = [r_run EXCEPT !.pc = "executed",
                                              !.cells = SystemParamFunction_execute(ps, b.cells),
                                              !.cmd = [k \in 1..n |-> "spawn"],
                                              !.fault = b.fault, !.err = b.err]
                    /\ r_world' = r_world + d
                    /\ r_sys' = [r_sys EXCEPT ![i].state.local = v]
                    /\ r_wrote' = IF "Local" \in ps THEN [r_wrote EXCEPT ![i] = v] ELSE r_wrote
               /\ UNCHANGED r_last
    /\ UNCHANGED r_res
    /\ UNCHANGED <<fvars, qvars, bvars, svars, vvars, evars, ivars>>

\* run_with from the apply of the command buffer to the return
RunApply ==
    /\ r_run.pc = "executed"
    /\ LET i == r_run.sys
           a == run_with_apply(r_run.cells, r_run.cmd, r_world)
       IN
        /\ r_world' = a.world
        /\ r_last' = [sys |-> i, params |-> r_sys[i].params, result |-> a.res,
                      recorded |-> Len(r_run.cmd), before |-> r_run.before,
                      direct |-> r_world - r_run.before, after |-> a.world,
                      read |-> r_run.read, prev |-> r_run.prev,
                      fault |-> r_run.fault, err |-> r_run.err]
        /\ r_run' = NoRunWith
    /\ UNCHANGED <<r_sys, r_wrote, r_res>>
    /\ UNCHANGED <<fvars, qvars, bvars, svars, vvars, evars, ivars>>

\* Changes::set on the list of component i, at the current or a later tick
FSet(i, kinds, ticks) ==
    /\ f_phase = "build"
    /\ i \in f_has
    /\ Len(f_chg[i]) < MaxChanges
    /\ \E sl \in SlicesIn(MaxSlot, MaxWrite), t \in ticks, k \in kinds :
        /\ t >= f_tick
        /\ f_chg' = [f_chg EXCEPT ![i] = ChangesSet(@, Change(sl, t, k))]
        /\ f_tick' = t
    /\ UNCHANGED <<f_phase, f_op, f_st, f_range, f_slots, f_out, f_call, f_late, f_has>>
    /\ UNCHANGED <<qvars, bvars, svars, vvars, rvars, evars, ivars>>

\* the archetype the filters are prepared for: one that has both components,
\* one of them or neither; an archetype has no change list for a component it
\* lacks
FArchetype ==
    /\ f_phase = "build"
    /\ f_chg = <<<<>>, <<>>>>
    /\ f_has = {1, 2}
    /\ \E comps \in (SUBSET {1, 2}) \ {{1, 2}} : f_has' = comps
    /\ UNCHANGED <<f_chg, f_tick, f_phase, f_op, f_st, f_range, f_slots, f_out, f_call, f_late>>
    /\ UNCHANGED <<qvars, bvars, svars, vvars, rvars, evars, ivars>>

\* the filters the FilterIter drives, by name
NamedFilter(o) ==
    CASE o = "kind" -> KindF(1)
      [] o = "change" -> ChangeF(1)
      [] o = "and" -> And(KindF(1), KindF(2))
      [] o = "or" -> Or(KindF(1), KindF(2))
      [] o = "not" -> Not(KindF(1))
      [] OTHER -> All

\* Filter::prepare of the named filter
NamedFilter_prepare(o, old, k) ==
    CASE o \in {"kind", "change", "not"} -> KindState(old, k)
      [] o \in {"and", "or"} -> PairState(KindState(old, k), KindState(old, k))
      [] OTHER -> TRUE

\* Filter::prepare and FilterIter::new(range, filter); the range is the whole
\* archetype or leaves out a slot at both ends
FPrepare(ops, kinds, olds) ==
    /\ f_phase = "build"
    /\ \E o \in ops, old \in olds, k \in kinds, a \in 0..1 :
        /\ f_op' = o
        /\ f_st' = NamedFilter_prepare(o, old, k)
        /\ f_range' = SliceNew(a, MaxSlot - a)
        /\ f_slots' = SliceNew(a, MaxSlot - a)
    /\ f_phase' = "iter"
    /\ UNCHANGED <<f_chg, f_tick, f_out, f_call, f_late, f_has>>
    /\ UNCHANGED <<qvars, bvars, svars, vvars, rvars, evars, ivars>>

\* FilterIter::next
FNext ==
    /\ f_phase = "iter"
    /\ LET n == FilterIter_next(NamedFilter(f_op), f_chg, f_st, f_slots) IN
        /\ f_st' = n.st
        /\ f_slots' = n.slots
        /\ f_out' = IF n.res = "some" THEN Append(f_out, n.item) ELSE f_out
        /\ f_phase' = CASE n.res = "some" -> "iter"
                        [] n.res = "none" -> "done"
                        [] n.res = "panic" -> "panic"
    /\ UNCHANGED <<f_chg, f_tick, f_op, f_range, f_call, f_late, f_has>>
    /\ UNCHANGED <<qvars, bvars, svars, vvars, rvars, evars, ivars>>

\* FilterIter::next called again after it returned None
FNextLate ==
    /\ f_phase = "done"
    /\ Len(f_late) < MaxLate
    /\ LET n == FilterIter_next(NamedFilter(f_op), f_chg, f_st, f_slots) IN
        /\ f_st' = n.st
        /\ f_slots' = n.slots
        /\ f_out' = IF n.res = "some" THEN Append(f_out, n.item) ELSE f_out
        /\ f_late' = Append(f_late, n.res)
    /\ UNCHANGED <<f_chg, f_tick, f_phase, f_op, f_range, f_call, f_has>>
    /\ UNCHANGED <<qvars, bvars, svars, vvars, rvars, evars, ivars>>

\* filter_slots called on the prepared change filter with any range, as
\* test::filter_slices calls it
FFilterSlots ==
    /\ f_phase = "iter"
    /\ f_op = "change"
    /\ \E slots \in SlicesIn(MaxSlot, MaxSlot) :
        LET r == filter_slots(f_chg[1], f_st, slots) IN
        /\ f_st' = r.st
        /\ f_call' = [called |-> TRUE, slots |-> slots, out |-> r.out, cur |-> f_st.cur,
                      advancing |-> f_call.advancing /\ slots.start >= f_call.hi,
                      hi |-> IF ~(f_call.advancing /\ slots.start >= f_call.hi) THEN 0
                             ELSE IF is_empty(r.out) THEN f_call.hi
                             ELSE Max2(f_call.hi, r.out.end)]
    /\ UNCHANGED <<f_chg, f_tick, f_phase, f_op, f_range, f_slots, f_out, f_late, f_has>>
    /\ UNCHANGED <<qvars, bvars, svars, vvars, rvars, evars, ivars>>

\* World::spawn of an entity with component c
Spawn ==
    /\ w_len < MaxEntities
    /\ w_tick < MaxWorldTick
    /\ w_tick' = advance_change_tick(w_tick)
    /\ w_chg' = ChangesSet(w_chg, PushChange(w_len, w_tick'))
    /\ w_len' = w_len + 1
    /\ q_mut' = q_mut \cup {"spawn"}
    /\ q_got' = NoGet
    /\ UNCHANGED <<w_track, q_filter, q_mutable, q_tick, q_runs, q_dirty, q_last>>
    /\ UNCHANGED <<fvars, bvars, svars, vvars, rvars, evars, ivars>>

\* a write to c in the slots sl by another mutable access (a mutable query
\* run over those slots, or get_mut of one entity)
Write ==
    /\ w_tick < MaxWorldTick
    /\ \E sl \in SlicesIn(w_len, w_len) :
        /\ w_tick' = advance_change_tick(w_tick)
        /\ w_chg' = Changes_set_modified(w_chg, Change(sl, w_tick', "modified"), w_track)
        /\ q_dirty' = q_dirty \cup SlotsOf(sl)
    /\ q_mut' = q_mut \cup {"write"}
    /\ q_got' = NoGet
    /\ UNCHANGED <<w_len, w_track, q_filter, q_mutable, q_tick, q_runs, q_last>>
    /\ UNCHANGED <<fvars, bvars, svars, vvars, rvars, evars, ivars>>

\* Query::iter, driven to the end
Iter ==
    /\ q_runs < MaxRuns
    /\ q_mutable => w_tick < MaxWorldTick
    /\ LET t == prepare_tick(q_tick, w_tick, q_mutable)
           it == QueryIter(q_filter, w_chg, t.old, t.new, w_len, q_mutable)
           out == it.out
       IN /\ q_tick' = t.self
          /\ w_tick' = t.world
          /\ w_chg' = it.changes
          /\ q_last' = [old |-> t.old, new |-> t.new, world |-> w_tick, len |-> w_len,
                        expect |-> q_dirty, since |-> q_mut,
                        prev |-> q_last.yield, yield |-> SlotsOfSeq(out)]
    /\ q_runs' = q_runs + 1
    /\ q_dirty' = {}
    /\ q_mut' = {}
    /\ q_got' = NoGet
    /\ w_track' = ChangeFilter_prepare_track(q_filter, w_track)
    /\ UNCHANGED <<w_len, q_filter, q_mutable>>
    /\ UNCHANGED <<fvars, bvars, svars, vvars, rvars, evars, ivars>>

\* Query::get of the entity at a slot by another query, whose fetch of c is
\* mutable; the caller writes c through the item
Get ==
    /\ w_tick < MaxWorldTick
    /\ \E slot \in 0..(w_len - 1) :
        LET g == Query_get_visit(w_chg, w_tick, slot, TRUE) IN
        /\ w_tick' = g.world
        /\ w_chg' = g.changes
        /\ q_dirty' = q_dirty \cup {slot}
        /\ q_got' = [slot |-> slot, world |-> w_tick]
    /\ q_mut' = q_mut \cup {"get"}
    /\ UNCHANGED <<w_len, w_track, q_filter, q_mutable, q_tick, q_runs, q_last>>
    /\ UNCHANGED <<fvars, bvars, svars, vvars, rvars, evars, ivars>>

\* handle h prepares a query with the fetch f
BPrepare(h, f) ==
    /\ b_held[h] = NoFetch
    /\ LET p == QueryData_borrow(b_cells, f) IN
        /\ b_cells' = p.cells
        /\ b_res' = [b_res EXCEPT ![h] = p.res]
        /\ b_held' = IF p.res = "ok" THEN [b_held EXCEPT ![h] = f] ELSE b_held
        /\ b_fail' = IF p.res = "ok" THEN b_fail ELSE [b_fail EXCEPT ![h] = f]
    /\ UNCHANGED <<fvars, qvars, svars, vvars, rvars, evars, ivars>>

\* handle h drops its prepared query
BDrop(h) ==
    /\ b_held[h] # NoFetch
    /\ b_cells' = Query_drop(b_cells, b_held[h])
    /\ b_held' = [b_held EXCEPT ![h] = NoFetch]
    /\ UNCHANGED <<b_res, b_fail>>
    /\ UNCHANGED <<fvars, qvars, svars, vvars, rvars, evars, ivars>>

\* what the functions of the systems can return: only a Result can be an error
Outcomes(systems) ==
    {o \in [1..Len(systems) -> {"ok", "err"}] :
        \A i \in 1..Len(systems) : systems[i] = "unit" => o[i] = "ok"}

\* Schedule::with_system
with_system(kind) ==
    /\ Len(s_systems) < MaxSystems
    /\ s_systems' = Append(s_systems, kind)
    /\ s_runs' = Append(s_runs, 0)
    /\ UNCHANGED <<s_execs, s_last, s_world>>
    /\ UNCHANGED <<fvars, qvars, bvars, vvars, rvars, evars, ivars>>

\* World::spawn by the owner of the world, between executions of the schedule
SSpawn ==
    /\ s_world < MaxWorld
    /\ s_world' = s_world + 1
    /\ UNCHANGED <<s_systems, s_runs, s_execs, s_last>>
    /\ UNCHANGED <<fvars, qvars, bvars, vvars, rvars, evars, ivars>>

\* Schedule::execute_seq; outcomes is what each system's function would return,
\* cmds the command each system records when it runs (none when it does not);
\* at most one system of an execution records one
ExecuteSeq ==
    /\ s_execs < MaxExecs
    /\ \E outcomes \in Outcomes(s_systems),
          cmds \in [1..Len(s_systems) -> {"none", "spawn"}] :
        LET e == execute_seq(s_systems, outcomes)
            c == execute_ctx(e.log, cmds, s_world, <<>>, <<>>)
        IN
        /\ \A i \in 1..Len(s_systems) :
            (\A j \in 1..Len(e.log) : e.log[j] # i) => cmds[i] = "none"
        /\ Cardinality({i \in 1..Len(s_systems) : cmds[i] = "spawn"}) <= 1
        /\ s_runs' = [i \in 1..Len(s_systems) |->
                        s_runs[i] + Cardinality({j \in 1..Len(e.log) : e.log[j] = i})]
        /\ s_last' = [systems |-> s_systems, outcomes |-> outcomes,
                      log |-> e.log, result |-> e.result,
                      cmds |-> cmds, before |-> s_world, seen |-> c.seen, cmd |-> c.cmd,
                      prev |-> s_last.result > 0]
        /\ s_world' = c.world
    /\ s_execs' = s_execs + 1
    /\ UNCHANGED s_systems
    /\ UNCHANGED <<fvars, qvars, bvars, vvars, rvars, evars, ivars>>

\* the ids an operation is called with: the live and the despawned ones
Ids == {v_born[k] : k \in 1..Len(v_born)}

\* v_last after an operation
Record(op, e, c, res, moved, pre) ==
    [op |-> op, e |-> e, c |-> c, res |-> res, moved |-> moved, pre |-> pre]

\* the query's last items belong to the world they were read from
Stale(q) == [q EXCEPT !.ran = FALSE, !.items = <<>>]

\* EntityBuilder::new().set(..).spawn(&mut world)
WSpawn ==
    /\ Len(v_born) < MaxSpawns
    /\ \E i \in FreeIndices(v_world), buffer \in SUBSET v_comps :
        LET r == EntityBuilder_spawn(v_world, i, buffer) IN
        /\ v_world' = r.world
        /\ v_born' = Append(v_born, r.id)
        /\ v_has' = [e \in DOMAIN v_has \cup {r.id} |->
                        IF e = r.id THEN buffer ELSE v_has[e]]
        /\ v_last' = NoOp
    /\ v_q' = Stale(v_q)
    /\ UNCHANGED <<v_comps, v_dead>>
    /\ UNCHANGED <<fvars, qvars, bvars, svars, rvars, evars, ivars>>

\* EntityBuilder::set of a component to a value
ESet ==
    /\ \E c \in v_comps, v \in 1..MaxValue :
        /\ e_buffer' = EntityBuilder_set(e_buffer, c, v)
        /\ e_since' = [x \in DOMAIN e_since \cup {c} |-> IF x = c THEN v ELSE e_since[x]]
    /\ UNCHANGED e_last
    /\ UNCHANGED <<fvars, qvars, bvars, svars, vvars, rvars, ivars>>

\* EntityBuilder::spawn of the builder into the world
ESpawn ==
    /\ Len(v_born) < MaxSpawns
    /\ \E i \in FreeIndices(v_world) :
        LET r == EntityBuilder_spawn(v_world, i, DOMAIN e_buffer) IN
        /\ v_world' = r.world
        /\ v_born' = Append(v_born, r.id)
        /\ v_has' = [e \in DOMAIN v_has \cup {r.id} |->
                        IF e = r.id THEN DOMAIN e_buffer ELSE v_has[e]]
        /\ v_last' = NoOp
        /\ e_last' = [id |-> r.id, values |-> e_buffer, since |-> e_since, n |-> e_last.n + 1]
    /\ e_buffer' = ComponentBuffer_drain(e_buffer)
    /\ e_since' = ComponentBuffer_new
    /\ v_q' = Stale(v_q)
    /\ UNCHANGED <<v_comps, v_dead>>
    /\ UNCHANGED <<fvars, qvars, bvars, svars, rvars, ivars>>

\* World::despawn of any id
WDespawn ==
    /\ \E e \in Ids :
        LET r == despawn(v_world, e) IN
        /\ v_world' = r.world
        /\ v_dead' = IF e \in DOMAIN v_has THEN v_dead \cup {e} ELSE v_dead
        /\ v_has' = [x \in DOMAIN v_has \ {e} |-> v_has[x]]
        /\ v_last' = NoOp
    /\ v_q' = Stale(v_q)
    /\ UNCHANGED <<v_comps, v_born>>
    /\ UNCHANGED <<fvars, qvars, bvars, svars, rvars, evars, ivars>>

\* World::set of a live component on any id
WSet ==
    /\ \E e \in Ids, c \in v_comps :
        LET r == set(v_world, e, c) IN
        /\ v_world' = r.world
        /\ v_has' = [x \in DOMAIN v_has |-> IF x = e THEN v_has[x] \cup {c} ELSE v_has[x]]
        /\ v_last' = IF r.res # "ok" THEN NoOp
                     ELSE Record("set", e, c, r.res, c \notin v_has[e], Shape(v_world))
    /\ v_q' = Stale(v_q)
    /\ UNCHANGED <<v_comps, v_born, v_dead>>
    /\ UNCHANGED <<fvars, qvars, bvars, svars, rvars, evars, ivars>>

\* World::remove of a component from any id
WRemove ==
    /\ \E e \in Ids, c \in WComps :
        LET r == remove(v_world, e, c) IN
        /\ v_world' = r.world
        /\ v_has' = [x \in DOMAIN v_has |-> IF x = e THEN v_has[x] \ {c} ELSE v_has[x]]
        /\ v_last' = IF r.res # "ok" THEN NoOp
                     ELSE Record("remove", e, c, r.res, TRUE,
                                 IF v_last.op = "set" /\ v_last.moved
                                    /\ v_last.e = e /\ v_last.c = c
                                 THEN v_last.pre ELSE NoShape)
    /\ v_q' = Stale(v_q)
    /\ UNCHANGED <<v_comps, v_born, v_dead>>
    /\ UNCHANGED <<fvars, qvars, bvars, svars, rvars, evars, ivars>>

\* World::despawn of the entity of a live component
WDespawnComponent ==
    /\ \E c \in v_comps :
        /\ v_world' = despawn_component(v_world, c)
        /\ v_comps' = v_comps \ {c}
        /\ v_has' = [x \in DOMAIN v_has |-> v_has[x] \ {c}]
        /\ v_last' = Record("despawn_component", NoEntity, c, "ok",
                           Holders(v_world, c) # {}, NoShape)
    /\ v_q' = Stale(v_q)
    /\ UNCHANGED <<v_born, v_dead>>
    /\ UNCHANGED <<fvars, qvars, bvars, svars, rvars, evars, ivars>>

\* Query::iter(&world) collected
WIter ==
    /\ ~v_q.ran
    /\ v_q' = Query_iter(v_q, v_world)
    /\ UNCHANGED <<v_world, v_comps, v_born, v_dead, v_has, v_last>>
    /\ UNCHANGED <<fvars, qvars, bvars, svars, rvars, evars, ivars>>

\* Query::iter(&world) collected, run after run; the query's runs are counted,
\* and for the last two runs whether the cache was rebuilt and the world's
\* archetype generation at the run are kept
WRun ==
    /\ v_q.runs < MaxRuns
    /\ LET last2(seq) == IF Len(seq) <= 2 THEN seq ELSE Tail(seq) IN
       v_q' = [Query_iter(v_q, v_world) EXCEPT
                  !.runs = @ + 1,
                  !.rebuilt = last2(Append(@, get_archetypes_rebuilds(v_q, v_world))),
                  !.seen = last2(Append(@, v_world.gen))]
    /\ UNCHANGED <<v_world, v_comps, v_born, v_dead, v_has, v_last>>
    /\ UNCHANGED <<fvars, qvars, bvars, svars, rvars, evars, ivars>>

\* a change filter alone over one change list
NextKind ==
    \/ FSet(1, Kinds, 1..MaxTick)
    \/ FPrepare({"kind", "change"}, Kinds, 0..(MaxTick - 1))
    \/ FNext

SpecKind == Init /\ [][NextKind]_vars

\* a change filter of filter/change.rs called directly, range after range,
\* over records at the old tick and records newer than it
NextSlots ==
    \/ FSet(1, {"modified"}, {1, 2})
    \/ FPrepare({"change"}, {"modified"}, {1})
    \/ FFilterSlots
SpecSlots == Init /\ [][NextSlots]_vars

\* a change filter of either file driven by FilterIter over modified and
\* inserted records at two ticks, both newer than the old tick or one of them
NextTicks ==
    \/ FSet(1, Kinds, {1, 2})
    \/ FPrepare({"kind", "change"}, Kinds, {0, 1})
    \/ FNext
SpecTicks == Init /\ [][NextTicks]_vars

\* combinators over the modified filters of two components, whose records
\* are all newer than the old tick (the combinators do not look at ticks)
NextAlg ==
    \/ \E i \in 1..2 : FSet(i, {"modified"}, {1})
    \/ FPrepare({"and", "or", "not"}, {"modified"}, {0})
    \/ FNext

SpecAlg == Init /\ [][NextAlg]_vars

\* every prepared filter: the change filters of both files alone, the
\* combinators over them and the boolean filter of All, over modified records
\* that are all newer than the old tick
NextFilter ==
    \/ \E i \in 1..2 : FSet(i, {"modified"}, {1})
    \/ FPrepare({"kind", "change", "and", "or", "not", "all"}, {"modified"}, {0})
    \/ FNext

SpecFilter == Init /\ [][NextFilter]_vars

\* every prepared filter driven to None and then called again
NextFused ==
    \/ \E i \in 1..2 : FSet(i, {"modified"}, {1})
    \/ FPrepare({"kind", "change", "and", "or", "not", "all"}, {"modified"}, {0})
    \/ FNext
    \/ FNextLate

SpecFused == Init /\ [][NextFused]_vars

\* every prepared filter driven over an archetype that has both components,
\* one of them or neither
NextMatches ==
    \/ FArchetype
    \/ \E i \in 1..2 : FSet(i, {"modified"}, {1})
    \/ FPrepare({"kind", "change", "and", "or", "not", "all"}, {"modified"}, {0})
    \/ FNext

SpecMatches == Init /\ [][NextMatches]_vars

\* a world with one archetype, writes to component c and one query with a
\* change filter on c
NextQuery ==
    \/ Spawn
    \/ Write
    \/ Iter

SpecQuery == InitQuery /\ [][NextQuery]_vars

\* the same world and query, with entities also written through Query::get of
\* a second, mutable query
NextGet ==
    \/ Spawn
    \/ Write
    \/ Iter
    \/ Get

SpecGet == InitQuery /\ [][NextGet]_vars

\* query handles preparing and dropping borrows of one archetype's components
NextBorrow ==
    \/ \E h \in Handles, f \in Fetches : BPrepare(h, f)
    \/ \E h \in Handles : BDrop(h)

SpecBorrow == Init /\ [][NextBorrow]_vars

\* a schedule of systems whose functions return () or a Result
NextSched ==
    \/ \E kind \in {"unit", "result"} : with_system(kind)
    \/ SSpawn
    \/ ExecuteSeq

SpecSched == Init /\ [][NextSched]_vars

\* a world of entities with up to two components, whose entities can be
\* despawned as well
NextWorld ==
    \/ WSpawn
    \/ WDespawn
    \/ WSet
    \/ WRemove
    \/ WDespawnComponent

SpecWorld == Init /\ [][NextWorld]_vars

\* a world whose entities are spawned, given components and despawned, and
\* one query over it
NextWorldQuery ==
    \/ WSpawn
    \/ WDespawn
    \/ WSet
    \/ WIter

SpecWorldQuery == InitWorld /\ [][NextWorldQuery]_vars

\* a world in which entities are spawned, into new archetypes and into the
\* ones there are, and one query run on it again and again
NextCache ==
    \/ WSpawn
    \/ WRun

SpecCache == InitWorld /\ [][NextCache]_vars

\* initialised function systems over the world and the command buffer, run
\* one at a time
WorldParams == {{"&World"}, {"&mut World"}, {"&CommandBuffer"}, {"&mut CommandBuffer"},
                {"&World", "&mut CommandBuffer"}, {"&mut World", "&mut CommandBuffer"},
                {"&World", "&mut World"}}
NextRun ==
    \/ RBoxed(WorldParams)
    \/ RunAcquire(0..MaxWorld)
    \/ RunExecute
    \/ RunApply
SpecRun == Init /\ [][NextRun]_vars

\* one entity builder, set and spawned again and again, and despawns
NextBuilder ==
    \/ ESet
    \/ ESpawn
    \/ WDespawn
SpecBuilder == Init /\ [][NextBuilder]_vars

\* function systems with a Local, made with or without their state
LocalParams == {{"Local"}, {"&World"}}
NextLocal ==
    \/ RIntoSystem(LocalParams)
    \/ RBoxed(LocalParams)
    \/ RInitState
    \/ RunAcquire({0})
    \/ RunExecute
    \/ RunApply
SpecLocal == Init /\ [][NextLocal]_vars

\* function systems over the resources of the world
ResourceParams == {{"ResMut<T>"}, {"Res<T>"}, {"ResMut<U>"}, {"Res<U>"}, {"ResourceBorrow<T>"},
                   {"ResMut<T>", "Res<T>"}, {"Res<T>", "Res<U>"}, {"ResMut<T>", "ResMut<U>"}}
NextRes ==
    \/ RBoxed(ResourceParams)
    \/ RSetResource
    \/ RRemoveResource
    \/ RunAcquire(0..MaxWorld)
    \/ RunExecute
    \/ RunApply
SpecRes == Init /\ [][NextRes]_vars

\* functions with QueryBorrow parameters made into systems, with and without
\* inputs
NextInput ==
    \/ IWithInput
    \/ IWithSystem
    \/ IBoxed
SpecInput == Init /\ [][NextInput]_vars

\* the slots yielded so far
Yielded == SlotsOfSeq(f_out)

\* iterate(F, s) for the modified change filter of component i alone, with
\* the old tick the combinators are prepared with
IterateKind(i) ==
    SlotsOfSeq(Collect(KindF(i), f_chg, KindState(0, "modified"), f_range))

\* the slots of the iterated range with a record of the filter's kind newer
\* than the filter's old tick
Expected(i) == ChangedSet(f_chg[i], f_st.tick, f_st.kind) \cap SlotsOf(f_range)

\* an execution in which the slice of a FilterIter was driven to its end
Driven(ops) == f_phase \in {"done", "panic"} /\ f_op \in ops

AndAlgebra ==
    Driven({"and"}) => (f_phase = "done" /\ Yielded = IterateKind(1) \cap IterateKind(2))

\* C3: driving FilterIter over Or(F, G) on a range yields the union of the
\* slots that F alone and G alone yield on that range
OrAlgebra ==
    Driven({"or"}) => (f_phase = "done" /\ Yielded = IterateKind(1) \cup IterateKind(2))

\* C4: driving FilterIter over Not(F) on a range ends without a panic and
\* yields the slots of the range that F alone does not yield
NotAlgebra ==
    Driven({"not"}) => (f_phase = "done" /\ Yielded = SlotsOf(f_range) \ IterateKind(1))

\* C5: driving FilterIter with a change filter over a range yields exactly the
\* slots of the range that lie in a record of the filter's kind with a tick
\* greater than the old tick
KindFilterExact ==
    Driven({"kind", "change"}) => (f_phase = "done" /\ Yielded = Expected(1))

\* a driven change filter that yielded a record and left out one too old
KindFilterExact_witness ==
    /\ Driven({"change"})
    /\ Yielded # {}
    /\ \E i \in 1..Len(f_chg[1]) :
        /\ f_chg[1][i].tick <= f_st.tick
        /\ f_chg[1][i].kind = f_st.kind
        /\ SlotsOf(f_chg[1][i].slice) \cap SlotsOf(f_range) # {}
        /\ SlotsOf(f_chg[1][i].slice) \cap Yielded = {}

\* C6: a run of a mutable query advances the world's tick by one, a run of a
\* read-only query leaves it, and either way the query stores the tick of the
\* run and uses the tick it stored before as the old tick
TickAdvancesOncePerMutableRun ==
    [][Iter => /\ w_tick' = (IF q_mutable THEN w_tick + 1 ELSE w_tick)
               /\ q_tick' = w_tick'
               /\ q_last'.new = w_tick'
               /\ q_last'.old = q_tick]_vars

\* a later run of a mutable query, whose old tick is the tick of an earlier run
TickAdvancesOncePerMutableRun_witness ==
    /\ q_runs >= 2
    /\ q_mutable
    /\ q_last.old > 0
    /\ q_last.new = q_last.world + 1
    /\ q_tick = q_last.new

\* C7: the first run of a query with the ModifiedFilter of c yields every
\* entity of the archetype
FirstRunYieldsAll ==
    (q_runs = 1 /\ q_filter = "modified") => q_last.yield = 0..(q_last.len - 1)

\* C8: a run of the query with no mutation of the world since its previous
\* run yields nothing, also when the previous run wrote c itself
SecondRunEmpty ==
    (q_runs > 1 /\ q_last.since = {}) => q_last.yield = {}

\* a mutable query run twice in a row, whose first run yielded and wrote slots
SecondRunEmpty_witness ==
    /\ q_runs > 1
    /\ q_last.since = {}
    /\ q_mutable
    /\ q_last.prev # {}
    /\ q_last.yield = {}

\* the handle h asks for a fetch that another handle's prepared query excludes
Conflict(h, f) ==
    \E g \in Handles \ {h} :
        /\ b_held[g] # NoFetch
        /\ b_held[g].comp = f.comp
        /\ b_held[g].mutable \/ f.mutable

\* no component is held mutably by one prepared query and by another as well
NoAlias ==
    \A g, h \in Handles :
        (g # h /\ b_held[g] # NoFetch /\ b_held[h] # NoFetch /\ b_held[g].comp = b_held[h].comp)
            => (~b_held[g].mutable /\ ~b_held[h].mutable)

\* C9: a prepare that conflicts with a held prepared query fails with the
\* borrow error and changes neither the cells nor what is held, a prepare
\* without a conflict succeeds, and no two prepared queries alias a component
BorrowExclusion ==
    /\ []NoAlias
    /\ [][\A h \in Handles, f \in Fetches : BPrepare(h, f) =>
            IF Conflict(h, f)
            THEN /\ b_res'[h] = (IF f.mutable THEN "BorrowMut" ELSE "Borrow")
                 /\ b_cells' = b_cells
                 /\ b_held' = b_held
            ELSE /\ b_res'[h] = "ok"
                 /\ b_held'[h] = f]_vars

\* a mutable prepare that failed while another query held the component and
\* succeeded after that one was dropped
BorrowExclusion_witness ==
    \E h \in Handles :
        /\ b_res[h] = "ok"
        /\ b_held[h] # NoFetch
        /\ b_held[h].mutable
        /\ b_fail[h] = b_held[h]

\* the first system of an execution whose function returns an error, 0 if none
FirstErr(systems, outcomes) ==
    LET F == {i \in 1..Len(systems) : systems[i] = "result" /\ outcomes[i] = "err"}
    IN IF F = {} THEN 0 ELSE CHOOSE i \in F : \A j \in F : i <= j

\* C10: execute_seq runs the systems in the order they were added up to and
\* including the first whose function returns an error and returns that
\* error, or runs all of them and returns Ok
ExecuteSeqOrder ==
    s_last.result # -1 =>
        LET k == FirstErr(s_last.systems, s_last.outcomes)
            n == IF k = 0 THEN Len(s_last.systems) ELSE k
        IN /\ s_last.log = [i \in 1..n |-> i]
           /\ s_last.result = k

\* an execution of three systems whose second failed
ExecuteSeqOrder_witness ==
    /\ s_last.result = 2
    /\ Len(s_last.systems) = 3
    /\ s_last.log = <<1, 2>>
    /\ s_last.outcomes[3] = "err"

\* the spawn commands recorded by the systems that ran before position j of
\* the last execution
SpawnedBefore(j) ==
    Cardinality({k \in 1..(j - 1) : s_last.cmds[s_last.log[k]] = "spawn"})

\* C11: in an execution every system observes the world with the commands of
\* the systems that ran before it applied: the entities they spawned exist
CommandsAppliedBetweenSystems ==
    s_last.result # -1 =>
        \A j \in 1..Len(s_last.log) : s_last.seen[j] = s_last.before + SpawnedBefore(j)

\* C13: a despawned id is not alive and has no location, World::get and
\* Query::get of it fail whatever is asked for, and a live entity at its index
\* carries a strictly greater generation
DespawnedStaysDead ==
    \A e \in v_dead :
        /\ ~is_alive(v_world, e)
        /\ location(v_world, e) = NoLoc
        /\ \A c \in WComps : get(v_world, e, c).res = "NoSuchEntity"
        /\ \A fetch \in SUBSET WComps : Query_get(v_world, fetch, e).res = "None"
        /\ \A x \in Alive(v_world) : x.index = e.index => x.gen > e.gen

\* a despawned id whose index a later spawn reused
DespawnedStaysDead_witness ==
    \E e \in v_dead : \E x \in Alive(v_world) : x.index = e.index

\* C14: the live entities are the ones spawned and not despawned; the location
\* of each is a slot of an archetype whose entity column holds it there and
\* whose signature is the set of components set on it, which Query::get
\* resolves to the entity; no two live entities share a location, and every
\* slot of every archetype is the location of the entity it holds
LocationBijective ==
    /\ Alive(v_world) = DOMAIN v_has
    /\ \A e \in DOMAIN v_has :
        LET loc == location(v_world, e) IN
        /\ loc.arch \in 1..Len(v_world.archs)
        /\ loc.slot \in 0..(Len(v_world.archs[loc.arch].entities) - 1)
        /\ v_world.archs[loc.arch].entities[loc.slot + 1] = e
        /\ v_world.archs[loc.arch].sig = v_has[e]
        /\ Query_get(v_world, v_has[e], e) = [res |-> "Some", item |-> e]
    /\ \A e1 \in DOMAIN v_has : \A e2 \in DOMAIN v_has :
        location(v_world, e1) = location(v_world, e2) => e1 = e2
    /\ \A a \in 1..Len(v_world.archs) : \A k \in 1..Len(v_world.archs[a].entities) :
        location(v_world, v_world.archs[a].entities[k]) = Loc(a, k - 1)

\* two live entities share an archetype that the second one spawned entered
\* first and the first migrated into by a remove
LocationBijective_witness ==
    /\ Len(v_born) = 2
    /\ v_last.op = "remove"
    /\ v_last.e = v_born[1]
    /\ location(v_world, v_born[1]).slot = 1
    /\ \E a \in 1..Len(v_world.archs) :
        /\ Len(v_world.archs[a].entities) = 2
        /\ v_world.archs[a].sig # {}

Matching ==
    {e \in Alive(v_world) :
        /\ Fetch_matches(v_q.fetch, v_world.archs[location(v_world, e).arch])
        /\ matches(v_q.filter, v_world.archs[location(v_world, e).arch])}

\* the run yielded every matching entity once and no other
YieldsMatching ==
    /\ {v_q.items[k] : k \in 1..Len(v_q.items)} = Matching
    /\ \A i \in 1..Len(v_q.items) : \A j \in 1..Len(v_q.items) :
        v_q.items[i] = v_q.items[j] => i = j

\* the position of an id in the order of the spawns
BornAt(e) == CHOOSE k \in 1..Len(v_born) : v_born[k] = e

\* C17 as claimed: a run of the query yields one item for each live entity
\* whose archetype has every fetched component, none for any other, and the
\* items of one archetype in the order in which the entities were spawned
QueryYieldsInSpawnOrder ==
    v_q.ran =>
        /\ YieldsMatching
        /\ \A i \in 1..Len(v_q.items) : \A j \in 1..Len(v_q.items) :
            (i < j /\ location(v_world, v_q.items[i]).arch
                        = location(v_world, v_q.items[j]).arch)
                => BornAt(v_q.items[i]) < BornAt(v_q.items[j])

\* C17: a run of the query yields one item for each live entity whose
\* archetype has every fetched component, none for any other, and the items
\* of one archetype in ascending slot order
QueryYieldsInSlotOrder ==
    v_q.ran =>
        /\ YieldsMatching
        /\ \A i \in 1..Len(v_q.items) : \A j \in 1..Len(v_q.items) :
            (i < j /\ location(v_world, v_q.items[i]).arch
                        = location(v_world, v_q.items[j]).arch)
                => location(v_world, v_q.items[i]).slot
                       < location(v_world, v_q.items[j]).slot

\* a run of the unfiltered query of both components that yielded the two
\* entities of one archetype, the one spawned first at the later slot
QueryYieldsInSlotOrder_witness ==
    /\ v_q.ran
    /\ v_q.fetch = WComps
    /\ v_q.filter.right = All
    /\ Len(v_q.items) = 2
    /\ v_q.items[2] = v_born[1]

\* C18: after a run the query's cached archetype list holds, once each, the
\* archetypes of the world that the fetch and the filter both match
CacheIsMatchingArchetypes ==
    v_q.ran =>
        /\ {v_q.archetypes[k] : k \in 1..Len(v_q.archetypes)}
               = {a \in 1..Len(v_world.archs) :
                     /\ Fetch_matches(v_q.fetch, v_world.archs[a])
                     /\ matches(v_q.filter, v_world.archs[a])}
        /\ \A i \in 1..Len(v_q.archetypes) : \A j \in 1..Len(v_q.archetypes) :
            v_q.archetypes[i] = v_q.archetypes[j] => i = j

FilterIterAscending ==
    \A i \in 1..Len(f_out) :
        /\ ~is_empty(f_out[i])
        /\ f_range.start <= f_out[i].start
        /\ f_out[i].end <= f_range.end
        /\ i > 1 => f_out[i - 1].end <= f_out[i].start

\* an iteration that yielded two slices with slots between them that it left
\* out, the first one not at the start of the range
FilterIterAscending_witness ==
    /\ f_phase = "done"
    /\ Len(f_out) = 2
    /\ f_range.start < f_out[1].start
    /\ f_out[1].end < f_out[2].start

\* a slice that is empty or lies inside slots
SubsetOf(s, slots) == is_empty(s) \/ (slots.start <= s.start /\ s.end <= slots.end)

\* what the next call of the prepared filter on the remaining slots returns
NextFiltered == ApplyFilter(NamedFilter(f_op), f_chg, f_st, f_slots)

\* C21: whenever FilterIter is about to call its prepared filter on the
\* remaining slots, the slice the filter returns (if it returns) is a subset
\* of those slots, and so is what each side of a combinator returns for them,
\* and the split of the remaining slots by a non-empty result succeeds
FilterReturnsSubset ==
    f_phase = "iter" =>
        /\ NextFiltered.ok =>
            /\ SubsetOf(NextFiltered.out, f_slots)
            /\ ~is_empty(NextFiltered.out) => split_with(f_slots, NextFiltered.out) # None
        /\ f_op \in {"and", "or"} =>
            /\ SubsetOf(ApplyFilter(KindF(1), f_chg, f_st.left, f_slots).out, f_slots)
            /\ SubsetOf(ApplyFilter(KindF(2), f_chg, f_st.right, f_slots).out, f_slots)
        /\ f_op = "not" => SubsetOf(ApplyFilter(KindF(1), f_chg, f_st, f_slots).out, f_slots)

\* the filter of filter/change.rs is about to return part of a record that
\* begins before the remaining slots and ends behind them
FilterReturnsSubset_witness ==
    /\ f_phase = "iter"
    /\ f_op = "change"
    /\ NextFiltered.out = f_slots
    /\ \E i \in 1..Len(f_chg[1]) :
        /\ f_chg[1][i].slice.start < f_slots.start
        /\ f_chg[1][i].slice.end > f_slots.end

\* C22: an execute_seq that follows a failed one runs the systems from the
\* first on in the order they were added, and returns Ok having run all of
\* them when no function fails
RetryAfterFailure ==
    s_last.prev =>
        /\ s_last.log = [i \in 1..Len(s_last.log) |-> i]
        /\ s_last.log # <<>>
        /\ (\A i \in 1..Len(s_last.systems) :
                FunctionSystem_execute(s_last.systems[i], s_last.outcomes[i]) = "ok")
            => (s_last.result = 0 /\ Len(s_last.log) = Len(s_last.systems))

\* an execution of three systems that succeeded after one in which a system
\* had failed
RetryAfterFailure_witness ==
    /\ s_last.prev
    /\ s_last.result = 0
    /\ s_last.log = <<1, 2, 3>>
    /\ s_last.systems[2] = "result"

\* C23: a run_with that returns has applied every command the function
\* recorded to the world, the borrows of the parameters are given back before
\* the command buffer is applied, and the application never meets a borrow
RunAppliesCommands ==
    /\ r_run.pc = "executed" => r_run.cells = SystemContext_new
    /\ r_last.result # "BorrowPanic"
    /\ r_last.result = "ok" => r_last.after = r_last.before + r_last.direct + r_last.recorded
    /\ r_run.pc = "idle" => r_world = r_last.after
RunAppliesCommands_witness ==
    /\ r_last.result = "ok"
    /\ r_last.params = {"&mut World", "&mut CommandBuffer"}
    /\ r_last.recorded = 2
    /\ r_last.direct = 1
    /\ r_last.after = r_last.before + 3

\* the accesses the parameters of system i declare
DeclaredAccess(i) == UNION {SystemParamAccess_access(p) : p \in r_sys[i].params}

\* C24: &mut World declares the mutable and &World the shared World access,
\* &mut CommandBuffer the mutable and &CommandBuffer the shared CommandBuffer
\* access; a system taking &mut World conflicts with every system declaring a
\* World access, two systems taking &mut CommandBuffer conflict, and two
\* systems that declare shared accesses only do not conflict
WorldAccessConflicts ==
    \A i, j \in 1..Len(r_sys) :
        LET a == DeclaredAccess(i)
            b == DeclaredAccess(j)
            ps == r_sys[i].params
        IN
        /\ "&mut World" \in ps <=> Access(AccessKind_World, TRUE) \in a
        /\ "&World" \in ps <=> Access(AccessKind_World, FALSE) \in a
        /\ "&mut CommandBuffer" \in ps <=> Access(AccessKind_CommandBuffer, TRUE) \in a
        /\ "&CommandBuffer" \in ps <=> Access(AccessKind_CommandBuffer, FALSE) \in a
        /\ i # j =>
            /\ ("&mut World" \in ps /\ \E y \in b : y.kind = AccessKind_World)
                    => Access_conflicts(a, b)
            /\ ("&mut CommandBuffer" \in ps /\ "&mut CommandBuffer" \in r_sys[j].params)
                    => Access_conflicts(a, b)
            /\ (\A x \in a \cup b : ~x.mutable) => ~Access_conflicts(a, b)
WorldAccessConflicts_witness ==
    /\ Len(r_sys) = 2
    /\ r_sys[1].params = {"&mut World"}
    /\ r_sys[2].params = {"&World", "&mut CommandBuffer"}
    /\ Access_conflicts(DeclaredAccess(1), DeclaredAccess(2))

\* the accesses the resource parameters of system i declare against the world
ResourceAccess(i) ==
    UNION {SystemAccess_access(p, r_res) : p \in r_sys[i].params \cap ResParams}

\* the resources system i takes by Res or ResMut, and those it takes by ResMut
Uses(i) == {ResourceOf(p) : p \in r_sys[i].params \cap ResParams}
UsesMut(i) == {ResourceOf(p) : p \in {q \in r_sys[i].params \cap ResParams : IsResMut(q)}}

\* the declarations of ResMut and Res: the column of the resource in the
\* archetype that holds it, mutable or shared, and the shared world access
ResourceDeclarations(i) ==
    /\ Access(AccessKind_World, FALSE) \in ResourceAccess(i)
    /\ \A t \in r_res :
        /\ t \in UsesMut(i) <=> Access(AccessKind_Archetype(r_res, t), TRUE) \in ResourceAccess(i)
        /\ (\E p \in r_sys[i].params \cap ResParams : ~IsResMut(p) /\ ResourceOf(p) = t)
                <=> Access(AccessKind_Archetype(r_res, t), FALSE) \in ResourceAccess(i)

\* C25 as stated: a system using ResMut<T> conflicts with any system using
\* Res<T> or ResMut<T> of the same T, and two systems that only use Res do not
\* conflict
ResMutAlwaysConflicts ==
    \A i, j \in 1..Len(r_sys) :
        (i # j /\ Uses(i) # {} /\ Uses(j) # {}) =>
            /\ ResourceDeclarations(i)
            /\ (UsesMut(i) \cap Uses(j) # {})
                    => Access_conflicts(ResourceAccess(i), ResourceAccess(j))
            /\ (UsesMut(i) = {} /\ UsesMut(j) = {})
                    => ~Access_conflicts(ResourceAccess(i), ResourceAccess(j))

\* C25: ResMut<T> declares the mutable and Res<T> the shared access to the
\* column of T in the archetype that holds the resource, both with the shared
\* world access; a system using ResMut<T> conflicts with any system using
\* Res<T> or ResMut<T> of a T that the world holds, and two systems that only
\* use Res do not conflict
ResMutConflictsWhenHeld ==
    \A i, j \in 1..Len(r_sys) :
        (i # j /\ Uses(i) # {} /\ Uses(j) # {}) =>
            /\ ResourceDeclarations(i)
            /\ (UsesMut(i) \cap Uses(j) \cap r_res # {})
                    => Access_conflicts(ResourceAccess(i), ResourceAccess(j))
            /\ (UsesMut(i) = {} /\ UsesMut(j) = {})
                    => ~Access_conflicts(ResourceAccess(i), ResourceAccess(j))
ResMutConflictsWhenHeld_witness ==
    /\ Len(r_sys) = 2
    /\ r_sys[1].params = {"ResMut<T>", "ResMut<U>"}
    /\ r_sys[2].params = {"Res<T>", "Res<U>"}
    /\ r_res = {"T", "U"}
    /\ Access_conflicts(ResourceAccess(1), ResourceAccess(2))

\* C27: a run whose system asked for a resource that the resources entity
\* does not hold, or that is already borrowed, does not panic: the function
\* is given the error as a value
ResourceErrorsAreValues ==
    r_last.fault # "none" => (r_last.result = "ok" /\ r_last.err = r_last.fault)

\* the records of a list are in ascending order of start and, for equal
\* starts, of tick
SortedByStart(list) ==
    \A j, k \in 1..Len(list) :
        j < k => \/ list[j].slice.start < list[k].slice.start
                 \/ list[j].slice.start = list[k].slice.start /\ list[j].tick <= list[k].tick

LocalExpected(wrote) == IF wrote = -1 THEN LocalState_default ELSE wrote

\* C29: a Local starts at the default when the state of the system is
\* initialised, an execution reads the value the previous execution of the
\* same system left, no other system changes it, and it declares no access
LocalPersists ==
    /\ (r_last.result = "ok" /\ "Local" \in r_last.params)
            => r_last.read = LocalExpected(r_last.prev)
    /\ \A i \in 1..Len(r_sys) :
        /\ r_sys[i].state.init => r_sys[i].state.local = LocalExpected(r_wrote[i])
        /\ SystemParamAccess_access("Local") = {}
        /\ (r_run.pc = "acquired" /\ r_run.sys = i /\ "Local" \in r_sys[i].params)
                => r_run.read = LocalExpected(r_wrote[i])
LocalPersists_witness ==
    /\ Len(r_sys) = 2
    /\ r_last.result = "ok"
    /\ r_last.sys = 1
    /\ r_last.read = 2
    /\ r_last.prev = 2
    /\ "Local" \in r_sys[2].params
    /\ r_wrote[2] = 1

\* the parts of the range of the last call that lie in a record of the
\* filter's kind newer than its old tick
NewerParts ==
    {intersect(f_chg[1][i].slice, f_call.slots) :
        i \in {j \in 1..Len(f_chg[1]) : /\ f_chg[1][j].kind = f_st.kind
                                        /\ f_chg[1][j].tick > f_st.tick
                                        /\ overlaps(f_chg[1][j].slice, f_call.slots)}}

\* the last call returned the part of lowest start, or the empty slice when
\* there is no part
ReturnedLowest ==
    IF NewerParts = {} THEN is_empty(f_call.out)
    ELSE f_call.out \in NewerParts /\ \A h \in NewerParts : f_call.out.start <= h.start

\* test::filter_slices up to its sixth call
filter_slices ==
    LET changes == <<Change(SliceNew(10, 20), 3, "modified"), Change(SliceNew(20, 22), 4, "modified"),
                     Change(SliceNew(30, 80), 3, "modified"), Change(SliceNew(100, 200), 4, "modified")>>
        c1 == filter_slots(changes, KindState(2, "modified"), SliceNew(0, 10))
        c2 == filter_slots(changes, c1.st, SliceNew(0, 50))
        c3 == filter_slots(changes, c2.st, SliceNew(20, 50))
        c4 == filter_slots(changes, c3.st, SliceNew(22, 50))
        c5 == filter_slots(changes, c4.st, SliceNew(0, 10))
        c6 == filter_slots(changes, c5.st, SliceNew(0, 50))
    IN <<c1.out, c2.out, c3.out, c4.out, c5.out, c6.out>>

\* C30 as stated: every call of filter_slots of a change filter returns the
\* lowest-start part of its range that lies in a record newer than the old
\* tick, and the empty slice when no such record overlaps the range
FilterSlotsLowest == f_call.called => ReturnedLowest

\* C30: a call of filter_slots of a change filter returns the lowest-start
\* part of its range that lies in a record newer than the old tick, and the
\* empty slice when no such record overlaps the range, as long as every call
\* since the prepare began at or after the end of the slices returned before
\* it; the calls of test::filter_slices return empty, 10..20, 20..22, 30..50,
\* and then, for a range that goes back, empty and 30..50
FilterSlotsLowestAdvancing ==
    /\ (f_call.called /\ f_call.advancing) => ReturnedLowest
    /\ filter_slices = <<empty, SliceNew(10, 20), SliceNew(20, 22), SliceNew(30, 50),
                         empty, SliceNew(30, 50)>>
FilterSlotsLowestAdvancing_witness ==
    /\ f_call.called
    /\ f_call.advancing
    /\ f_call.hi > 0
    /\ f_call.slots.start > 0
    /\ Cardinality(NewerParts) = 2
    /\ ReturnedLowest

\* the record cached before the last call overlaps the range of that call
CachedOverlaps == f_call.cur # None /\ overlaps(f_call.cur, f_call.slots)

\* C31: while the record a change filter returned last overlaps the range it
\* is called with, filter_slots returns the part of the range in that record,
\* also when another record newer than the old tick starts earlier in the
\* range; a range the cached record does not overlap is searched among all
\* the records: the call returns a part of the range in a newer record when
\* there is one and the empty slice otherwise; the sixth call of
\* test::filter_slices, 0..50 after 22..50 was served from 30..80, returns
\* 30..50
CachedRecordServed ==
    /\ (f_call.called /\ CachedOverlaps) =>
            f_call.out = intersect(f_call.cur, f_call.slots)
    /\ (f_call.called /\ ~CachedOverlaps) =>
            IF NewerParts = {} THEN is_empty(f_call.out) ELSE f_call.out \in NewerParts
    /\ filter_slices[4] = SliceNew(30, 50)
    /\ filter_slices[6] = SliceNew(30, 50)
CachedRecordServed_witness ==
    /\ f_call.called
    /\ CachedOverlaps
    /\ ~f_call.advancing
    /\ f_call.out = intersect(f_call.cur, f_call.slots)
    /\ \E h \in NewerParts : h.start < f_call.out.start

\* tests::filter of filter/mod.rs: the chunks a modified filter with old tick 2
\* yields over 0..1238
tests_filter ==
    LET c1 == ChangesSet(<<>>, Change(SliceNew(40, 200), 1, "modified"))
        c2 == ChangesSet(c1, Change(SliceNew(70, 349), 2, "modified"))
        c3 == ChangesSet(c2, Change(SliceNew(560, 893), 5, "modified"))
        c4 == ChangesSet(c3, Change(SliceNew(39, 60), 6, "modified"))
        c5 == ChangesSet(c4, Change(SliceNew(784, 800), 7, "inserted"))
        c6 == ChangesSet(c5, Change(SliceNew(945, 1139), 8, "modified"))
    IN Collect(KindF(1), <<c6, <<>>>>, KindState(2, "modified"), SliceNew(0, 1238))

\* C32: at every point of an iteration, every slot a change filter has
\* yielded lies in a record of the filter's kind with a tick greater than the
\* old tick: a slot that lies only in records at or before the old tick, or
\* only in records of the other kind, is never yielded; tests::filter yields
\* 39..60, 560..893 and 945..1139
NeverOldNorOtherKind ==
    /\ f_op \in {"kind", "change"} => Yielded \subseteq Expected(1)
    /\ tests_filter = <<SliceNew(39, 60), SliceNew(560, 893), SliceNew(945, 1139)>>

\* a modified filter that yielded a slot and left out a slot of its range
\* that lies in an inserted record newer than the old tick
NeverOldNorOtherKind_witness ==
    /\ Driven({"kind"})
    /\ f_st.kind = "modified"
    /\ Yielded # {}
    /\ \E i \in 1..Len(f_chg[1]) :
        /\ f_chg[1][i].tick > f_st.tick
        /\ f_chg[1][i].kind = "inserted"
        /\ SlotsOf(f_chg[1][i].slice) \cap SlotsOf(f_range) # {}
        /\ SlotsOf(f_chg[1][i].slice) \cap Yielded = {}

\* the slots of the archetype that had, when the last run began, a modified
\* or an inserted record of c newer than the old tick of that run
ChangedBefore ==
    {x \in 0..(q_last.len - 1) :
        \E i \in 1..Len(w_chg) :
            /\ w_chg[i].tick > q_last.old
            /\ w_chg[i].tick <= q_last.world
            /\ x \in SlotsOf(w_chg[i].slice)}

\* C33: a run of a query with the ModifiedFilter of c yields exactly the
\* slots that have a modified record or an inserted record of c newer than
\* the old tick, wherever in the archetype they lie
ModifiedReportsInserted ==
    (q_runs >= 1 /\ q_filter = "modified") => q_last.yield = ChangedBefore

\* C34: every call of FilterIter::next made after it returned None returns
\* None, for every prepared filter
FusedAfterNone == \A i \in 1..Len(f_late) : f_late[i] = "none"

\* the same for the prepared filters other than And
FusedAfterNoneButAnd == f_op # "and" => FusedAfterNone

\* C35: a filter whose matches is false for the archetype yields no slot of
\* it when prepared and driven
MatchesSound ==
    (f_phase \in {"iter", "done", "panic"} /\ ~Filter_matches(NamedFilter(f_op), f_has))
        => Yielded = {}

\* the same for the filters other than Not
MatchesSoundButNot == f_op # "not" => MatchesSound

\* the branch of find_slice that answers the next call FilterIter makes
NextFound == find_slice(ChangesGet(f_chg[1], f_st.kind), f_st, f_slots)

\* the records of the filter's kind newer than the old tick that lie before
\* the cursor
BeforeCursor == Newer(SubSeq(ChangesGet(f_chg[1], f_st.kind), 1, f_st.index), f_st.tick)

\* C36: with the records sorted by ascending start and the ranges FilterIter
\* passes, the scan over the records before the cursor never finds a record:
\* every call of find_slice is answered by the cached record or by the
\* forward scan, or finds nothing
BackwardScanUnreachable ==
    (SortedByStart(f_chg[1]) /\ f_phase = "iter" /\ f_op = "change")
        => NextFound.from # "backward"

\* a call made after the cursor has moved past a record newer than the old
\* tick, with slots left to search and no record for them after the cursor
BackwardScanUnreachable_witness ==
    /\ f_phase = "iter"
    /\ f_op = "change"
    /\ f_out # <<>>
    /\ ~is_empty(f_slots)
    /\ SortedByStart(f_chg[1])
    /\ BeforeCursor # <<>>
    /\ NextFound.from = "none"

\* C37: no run of a system ends at the unwrap of a parameter state that was
\* never initialised: every system is initialised before its first run
StateInitialisedBeforeRun == r_last.result # "UnwrapPanic"

\* the positions of the inputs of the last system whose type is the state
\* type of the parameter p
Supplied(p) == {k \in 1..Len(i_last.input) : i_last.input[k].type = QueryOf(p)}

\* C38: system() or boxed() succeeds exactly when, for every QueryBorrow
\* parameter, a Query of the parameter's type is among the inputs given with
\* with_input; the state of the parameter is then equal to such an input, and
\* otherwise the call panics with 'query not set' and makes no system
QueryBorrowNeedsInput ==
    i_last.via # "none" =>
        LET need == i_last.params \cap QueryParams IN
        /\ i_last.res = "ok" <=> \A p \in need : Supplied(p) # {}
        /\ i_last.res = "ok" =>
                \A p \in need : \E k \in Supplied(p) : i_last.state[p] = i_last.input[k]
        /\ i_last.res # "ok" => (i_last.res = "query not set" /\ i_last.state = <<>>)

\* a system with a QueryBorrow<A> parameter given a Query<B> and then a
\* Query<A> with another content
QueryBorrowNeedsInput_witness ==
    /\ i_last.via = "boxed"
    /\ i_last.res = "ok"
    /\ i_last.params = {"QueryBorrow<A>"}
    /\ Len(i_last.input) = 2
    /\ i_last.input[1].type = "Query<B>"
    /\ i_last.input[2].type = "Query<A>"
    /\ i_last.input[1].value # i_last.input[2].value
    /\ i_last.state["QueryBorrow<A>"] = i_last.input[2]

\* C39: a run that rebuilds the cached archetype list leaves the world's
\* archetype generation of that moment in the query, and of two consecutive
\* runs with no archetype created in between at most one rebuilds the list
CacheRebuiltOnAdvance ==
    LET n == Len(v_q.rebuilt) IN
    /\ (n >= 1 /\ v_q.rebuilt[n]) => v_q.archetype_gen = v_q.seen[n]
    /\ (n = 2 /\ v_q.seen[1] = v_q.seen[2]) => ~(v_q.rebuilt[1] /\ v_q.rebuilt[2])

====
